---- MODULE Spec2Model ----
(***************************************************************************)
(* Signal-quality alerting pipeline of sigme_backend:                      *)
(*   POST /api/connectivity/ping      (connectivity controller)            *)
(*   POST /api/alerts/:id/confirm     (alerts controller)                  *)
(*   POST /api/alerts/:id/dismiss     (alerts controller)                  *)
(* Every request is a process; each awaited database or mail call of a     *)
(* handler is one atomic step, so concurrent requests interleave at the    *)
(* awaits exactly as the event loop allows.  Spec lets two clients send    *)
(* requests independently; SpecSeq has them send one request at a time.    *)
(* Further specifications watch parts of the pipeline on their own:        *)
(*   SpecPingsSeq   pings over a period longer than the lastPinged window  *)
(*   SpecGeo        POST /api/connectivity/disconnect and the fuzzy        *)
(*                  location matching, clients not waiting for each other  *)
(*   SpecGeoSeq     disconnects and pings sent one after another           *)
(*   SpecLowSignal  the low-signal rule of the ping handler                *)
(*   SpecClassify   classifySignal                                         *)
(*   SpecCarrier    classifySignalByCarrier                                *)
(*   SpecEnrich     classifySignalByCarrier as enrichGoogleCandidate calls *)
(*                  it, with a radius of 2 km                              *)
(*   SpecPingsRace  two pings of one device in flight at once              *)
(*   SpecRest       disconnects whose body carries further fields          *)
(*   SpecReport     POST /api/connectivity                                 *)
(*   SpecModes      POST and DELETE /api/alert-modes                       *)
(***************************************************************************)
EXTENDS Integers, Sequences, FiniteSets, TLC

\* ---------------------------------------------------------------- bounds
\* the clock runs from 0 to MaxTime minutes
MaxTime == 1
\* number of ping requests sent in one behaviour
MaxPings == 1
\* the longer period over which a device is watched pinging, in minutes
MaxClock == 6
\* number of ping requests sent in that period
MaxLivePings == 2
\* number of disconnect requests sent in one behaviour
MaxDisconnects == 2
\* number of samples with a reading stored at the place that is analysed
MaxSamples == 3
\* number of alert modes created in one behaviour
MaxModes == 2
\* number of POST /api/connectivity requests sent in one behaviour
MaxReports == 3

\* ------------------------------------------------------- optional values
\* a nullable column / an undefined JS value: <<>> is null, <<x>> is x
None == <<>>
Some(x) == <<x>>
IsNone(o) == o = <<>>
IsSome(o) == o # <<>>
Get(o) == o[1]

\* ------------------------------------------------------------ the schema
Users == {"u1", "u2"}
Devices == {"d1"}
\* DeviceInfo.userId: u1 owns the device, u2 owns none
DeviceOwner(d) == "u1"
\* User.email
UserEmail(u) == IF u = "u1" THEN "u1@mail" ELSE "u2@mail"

AlertStatus == {"PENDING", "CONFIRMED", "DISMISSED"}
AlertMechanism == {"manual_alert", "auto_alert"}
ContactTypeEnum == {"EMERGENCY", "FAVORITE"}
\* AlertMode.key is a free string: the two mechanisms and one other key
AlertModeKeys == AlertMechanism \cup {"sms_alert"}

\* the quiescence window of lastPinged, in minutes
MINUTES == 5

\* ------------------------------------------------------------ the inputs
\* a raw body field: absent, a number, or a text that is not a number
Absent == [kind |-> "absent", val |-> 0]
Num(n) == [kind |-> "num", val |-> n]
Text == [kind |-> "text", val |-> 0]
\* parseInt: NaN (None) for an absent or non-numeric field
ParseInt(raw) == IF raw.kind = "num" THEN Some(raw.val) ELSE None

SignalInputs ==
  { [dbm |-> Num(-100), level |-> Absent],
    [dbm |-> Num(-99),  level |-> Num(2)] }
\* the contact lists a user may have stored, in insertion order
ContactLists ==
  { << >>,
    << [type |-> "FAVORITE",  email |-> "fav@mail"] >>,
    << [type |-> "FAVORITE",  email |-> "fav@mail"],
       [type |-> "EMERGENCY", email |-> "em1@mail"],
       [type |-> "EMERGENCY", email |-> "em2@mail"] >> }

\* what u1 has configured: an alert mode key (or none) and, where the
\* automatic path reads them, contacts
Configurations ==
  { [key |-> k, contacts |-> << >>] :
      k \in {None} \cup {Some(m) : m \in AlertModeKeys} }
  \cup { [key |-> Some("auto_alert"), contacts |-> cl] : cl \in ContactLists }

\* who pings which device: the owner, another user, the owner without deviceId
PingInputs ==
  { [user |-> "u1", deviceId |-> "d1"],
    [user |-> "u2", deviceId |-> "d1"],
    [user |-> "u1", deviceId |-> ""] }

\* the two client connections requests arrive on; a connection keeps its
\* last answer until the next request arrives on it
Reqs == {1, 2}
\* the alert ids a confirm or dismiss may name: those a ping can have
\* created and one that never exists
AlertIds == 1..(MaxPings + 1)

VARIABLES
  now,                \* the wall clock, minutes
  lastPinged,         \* DeviceInfo.lastPinged, per device
  userAlertModeKey,   \* User.alertMode.key, per user (None: no mode)
  contacts,           \* Contact rows, per user
  mobileNetworkInfos, \* MobileNetworkInfo rows; the id is the index
  connectivityInfos,  \* ConnectivityInfo rows; the id is the index
  alerts,             \* Alert rows; the id is the index
  emails,             \* every call of sendEmail, in order
  req,                \* the requests: inputs, position, locals, response
  pings,              \* number of ping requests sent so far
  serial,             \* TRUE when the clients send one request at a time
  locations,          \* Location rows; the id is the index
  resolutions,        \* every return of getOrCreateFuzzyLocation, in order
  disconnects,        \* number of disconnect requests sent so far
  reports,            \* number of POST /api/connectivity requests sent so far
  call,               \* a library function applied on its own: input and result
  alertModes          \* AlertMode: the rows in createdAt order, and how many
                      \* rows were ever created

\* the location store and the calls into it
geoVars == << locations, resolutions, disconnects, reports >>

vars == << now, lastPinged, userAlertModeKey, contacts, mobileNetworkInfos,
           connectivityInfos, alerts, emails, req, pings, serial, geoVars, call, alertModes >>

\* -------------------------------------------------------------- requests
\* ...rest of a connectivity body: the further fields it carries that are
\* columns of ConnectivityInfo (None: the body does not carry the field)
NoRest == [connectivityType |-> None, isConnected |-> None]

Idle ==
  [ op |-> "idle", pc |-> "idle", user |-> "", deviceId |-> "", alertId |-> 0,
    dbm |-> Absent, level |-> Absent,
    tnow |-> 0, shouldUpdate |-> FALSE, devLastPinged |-> None,
    mniId |-> 0, ciId |-> 0, recipient |-> "", alert |-> None,
    wrote |-> FALSE, mailed |-> 0, resp |-> None,
    location |-> None, mobileNetworkInfo |-> None, locationId |-> 0,
    connectivityType |-> "", rest |-> NoRest,
    modeId |-> 0, key |-> "", label |-> "" ]

Response(code, message) ==
  [ code |-> code, message |-> message, error |-> "", alert |-> None,
    warning |-> FALSE, lastPinged |-> None ]

InFlight == {p \in Reqs : req[p].pc \notin {"idle", "done"}}
\* a request arrives on the first connection that is not busy
CanStart(r) ==
  /\ r \notin InFlight
  /\ \A p \in 1..(r - 1) : p \in InFlight
  /\ serial => InFlight = {}

\* the handler returns: its locals are gone, what stays on the connection
\* is the request that was sent, what it did and the answer
Answered(q, resp) ==
  [ Idle EXCEPT !.op = q.op, !.pc = "done", !.user = q.user,
                !.deviceId = q.deviceId, !.alertId = q.alertId,
                !.dbm = q.dbm, !.level = q.level,
                !.wrote = q.wrote, !.mailed = q.mailed, !.resp = Some(resp),
                !.location = q.location,
                !.mobileNetworkInfo = q.mobileNetworkInfo,
                !.connectivityType = q.connectivityType, !.rest = q.rest,
                !.modeId = q.modeId, !.key = q.key, !.label = q.label ]

Finish(r, q, resp) == req' = [req EXCEPT ![r] = Answered(q, resp)]

\* no library function is being applied on its own
NoCall == [fn |-> "none"]

\* no alert mode was ever created
NoModes == [rows |-> << >>, created |-> 0]

\* the alert modes the users' keys refer to
SeededModes ==
  [ rows |-> << [id |-> 1, key |-> "auto_alert"], [id |-> 2, key |-> "manual_alert"],
                [id |-> 3, key |-> "sms_alert"] >>,
    created |-> 3 ]

Store ==
  /\ now = 0
  /\ lastPinged = [d \in Devices |-> None]
  /\ \E c \in Configurations :
       /\ userAlertModeKey = [u \in Users |-> IF u = "u1" THEN c.key ELSE None]
       /\ contacts = [u \in Users |-> IF u = "u1" THEN c.contacts ELSE << >>]
  /\ mobileNetworkInfos = << >>
  /\ connectivityInfos = << >>
  /\ alerts = << >>
  /\ emails = << >>
  /\ req = [r \in Reqs |-> Idle]
  /\ pings = 0
  /\ locations = << >>
  /\ resolutions = << >>
  /\ disconnects = 0
  /\ reports = 0
  /\ alertModes = SeededModes

\* clients that do not wait for each other
Init == Store /\ serial = FALSE /\ call = NoCall

\* clients that send the next request after the answer to the previous one
InitSeq == Store /\ serial = TRUE /\ call = NoCall

\* a store in which no request is under way and nobody has an alert mode
Calm ==
  /\ now = 0
  /\ lastPinged = [d \in Devices |-> None]
  /\ userAlertModeKey = [u \in Users |-> None]
  /\ contacts = [u \in Users |-> << >>]
  /\ alerts = << >>
  /\ emails = << >>
  /\ req = [r \in Reqs |-> Idle]
  /\ pings = 0
  /\ resolutions = << >>
  /\ disconnects = 0
  /\ reports = 0
  /\ alertModes = NoModes

\* such a store, requests sent one at a time
Quiet == Calm /\ serial = TRUE

\* no telemetry stored
NoRows ==
  /\ mobileNetworkInfos = << >>
  /\ connectivityInfos = << >>
  /\ locations = << >>

\* an empty store, requests sent one at a time
InitEmpty == Quiet /\ NoRows /\ call = NoCall

\* ------------------------------------------------------------------ time
\* a minute passes, up to the end of the observed period
TickTo(end) ==
  /\ now < end /\ now' = now + 1
  /\ UNCHANGED << lastPinged, userAlertModeKey, contacts, mobileNetworkInfos,
                  connectivityInfos, alerts, emails, req, pings, serial, geoVars, call, alertModes >>

Tick == TickTo(MaxTime)

\* ------------------------------------------------- lib/notifications.js
\* sendEmail(to, subject): one delivery attempt, which the transport
\* accepts (ok) or refuses (the function then throws 'Email delivery failed')
SendEmail(to, subject, ok) ==
  emails' = Append(emails, [to |-> to, subject |-> subject, ok |-> ok])

\* ------------------------------------------- POST /api/connectivity/ping
\* a ping arrives, one of at most budget pings, with one of the inputs
StartPingWithin(r, budget, inputs) ==
  /\ CanStart(r)
  /\ pings < budget
  /\ pings' = pings + 1
  /\ \E i \in inputs, s \in SignalInputs :
       req' = [req EXCEPT ![r] = [Idle EXCEPT !.op = "ping", !.pc = "findDevice",
                                   !.user = i.user, !.deviceId = i.deviceId,
                                   !.dbm = s.dbm, !.level = s.level]]
  /\ UNCHANGED << now, lastPinged, userAlertModeKey, contacts,
                  mobileNetworkInfos, connectivityInfos, alerts, emails, serial, geoVars, call, alertModes >>

StartPing(r) == StartPingWithin(r, MaxPings, PingInputs)

\* a dBm criterion that leaves out the bound
IsLowSignal_Strict(dbm, level) ==
  \/ IsSome(ParseInt(dbm)) /\ Get(ParseInt(dbm)) < -100
  \/ IsSome(ParseInt(level)) /\ Get(ParseInt(level)) <= 1

\* isLowSignal of the handler
IsLowSignal(dbm, level) ==
  \/ IsSome(ParseInt(dbm)) /\ Get(ParseInt(dbm)) <= -100
  \/ IsSome(ParseInt(level)) /\ Get(ParseInt(level)) <= 1

\* a window that closes one minute early
ShouldUpdate_AtLeast(prev, t) == IsNone(prev) \/ (t - Get(prev)) >= MINUTES

\* shouldUpdate of the handler
ShouldUpdate(prev, t) == IsNone(prev) \/ (t - Get(prev)) > MINUTES

\* a lookup by id alone
FindDevice_AnyOwner(d, u) == d \in Devices

\* db.deviceInfo.findFirst({ where: { id, userId } })
FindDevice(d, u) == d \in Devices /\ DeviceOwner(d) = u

\* the 200 answer of the handler, built from the request's locals
PingOk(q, pendingAlert) ==
  [ Response(200, "connected") EXCEPT
      !.lastPinged = IF q.shouldUpdate THEN Some(q.tnow) ELSE q.devLastPinged,
      !.warning = IsLowSignal(q.dbm, q.level),
      !.alert = pendingAlert ]

\* a catch block that swallows the failure
PingError_Swallowed(msg) == Response(200, "connected")

\* the catch block of the handler
PingError(msg) == [Response(500, "Server error") EXCEPT !.error = msg]

\* a handler that stores the reading whatever the signal
AfterLastPinged_Always(r, q) ==
  req' = [req EXCEPT ![r] = [q EXCEPT !.pc = "createReading"]]

\* where the handler goes once lastPinged is settled
AfterLastPinged(r, q) ==
  IF IsLowSignal(q.dbm, q.level)
    THEN req' = [req EXCEPT ![r] = [q EXCEPT !.pc = "createReading"]]
    ELSE Finish(r, q, PingOk(q, None))

PingFindDevice(r) ==
  /\ req[r].op = "ping" /\ req[r].pc = "findDevice"
  /\ LET q == req[r] IN
       IF q.deviceId = ""
         THEN Finish(r, q, Response(400, "deviceId is required"))
       ELSE IF ~FindDevice(q.deviceId, q.user)
         THEN Finish(r, q, Response(404, "Device not found or not owned by user"))
       ELSE LET prev == lastPinged[q.deviceId]
                q1 == [q EXCEPT !.tnow = now, !.devLastPinged = prev,
                                !.shouldUpdate = ShouldUpdate(prev, now)]
            IN IF q1.shouldUpdate
                 THEN req' = [req EXCEPT ![r] = [q1 EXCEPT !.pc = "updateDevice"]]
                 ELSE AfterLastPinged(r, q1)
  /\ UNCHANGED << now, lastPinged, userAlertModeKey, contacts,
                  mobileNetworkInfos, connectivityInfos, alerts, emails, pings, serial, geoVars, call, alertModes >>

PingUpdateDevice(r) ==
  /\ req[r].op = "ping" /\ req[r].pc = "updateDevice"
  /\ lastPinged' = [lastPinged EXCEPT ![req[r].deviceId] = Some(req[r].tnow)]
  /\ AfterLastPinged(r, req[r])
  /\ UNCHANGED << now, userAlertModeKey, contacts, mobileNetworkInfos,
                  connectivityInfos, alerts, emails, pings, serial, geoVars, call, alertModes >>

PingCreateReading(r) ==
  /\ req[r].op = "ping" /\ req[r].pc = "createReading"
  /\ mobileNetworkInfos' =
       Append(mobileNetworkInfos,
              [ carrier |-> None,
                signalDbm |-> ParseInt(req[r].dbm),
                signalLevel |-> ParseInt(req[r].level) ])
  /\ req' = [req EXCEPT ![r].pc = "createSample",
                        ![r].mniId = Len(mobileNetworkInfos) + 1]
  /\ UNCHANGED << now, lastPinged, userAlertModeKey, contacts,
                  connectivityInfos, alerts, emails, pings, serial, geoVars, call, alertModes >>

PingCreateSample(r) ==
  /\ req[r].op = "ping" /\ req[r].pc = "createSample"
  /\ connectivityInfos' =
       Append(connectivityInfos,
              [ deviceId |-> req[r].deviceId,
                connectivityType |-> "mobile",
                isConnected |-> FALSE,
                locationId |-> 0,
                mobileNetworkInfoId |-> req[r].mniId ])
  /\ req' = [req EXCEPT ![r].pc = "findUser",
                        ![r].ciId = Len(connectivityInfos) + 1]
  /\ UNCHANGED << now, lastPinged, userAlertModeKey, contacts,
                  mobileNetworkInfos, alerts, emails, pings, serial, geoVars, call, alertModes >>

\* a dispatch whose last branch notifies instead of doing nothing
Mechanism_DefaultAuto(key) ==
  IF key = Some("manual_alert") THEN "manual" ELSE "auto"

\* the two mechanism branches swapped
Mechanism_Swapped(key) ==
  IF key = Some("auto_alert") THEN "manual"
  ELSE IF key = Some("manual_alert") THEN "auto"
  ELSE "unknown"

\* the branch taken on userWithAlert?.alertMode?.key
Mechanism(key) ==
  IF key = Some("auto_alert") THEN "auto"
  ELSE IF key = Some("manual_alert") THEN "manual"
  ELSE "unknown"

PingFindUser(r) ==
  /\ req[r].op = "ping" /\ req[r].pc = "findUser"
  /\ LET m == Mechanism(userAlertModeKey[req[r].user]) IN
       IF m = "auto" THEN req' = [req EXCEPT ![r].pc = "findContacts"]
       ELSE IF m = "manual" THEN req' = [req EXCEPT ![r].pc = "createAlert"]
       ELSE Finish(r, req[r], PingOk(req[r], None))
  /\ UNCHANGED << now, lastPinged, userAlertModeKey, contacts,
                  mobileNetworkInfos, connectivityInfos, alerts, emails, pings, serial, geoVars, call, alertModes >>

\* a query without the type filter
EmergencyContacts_AnyType(u) == contacts[u]

\* db.contact.findMany({ where: { userId, type: EMERGENCY } })
EmergencyContacts(u) ==
  SelectSeq(contacts[u], LAMBDA c : c.type = "EMERGENCY")

\* the address the automatic path mails
Recipient(u) ==
  IF Len(EmergencyContacts(u)) > 0
    THEN EmergencyContacts(u)[1].email
    ELSE UserEmail(u)

PingFindContacts(r) ==
  /\ req[r].op = "ping" /\ req[r].pc = "findContacts"
  /\ req' = [req EXCEPT ![r].pc = "sendEmail",
                        ![r].recipient = Recipient(req[r].user)]
  /\ UNCHANGED << now, lastPinged, userAlertModeKey, contacts,
                  mobileNetworkInfos, connectivityInfos, alerts, emails, pings, serial, geoVars, call, alertModes >>

PingSendEmail(r) ==
  /\ req[r].op = "ping" /\ req[r].pc = "sendEmail"
  /\ \E ok \in BOOLEAN :
       /\ SendEmail(req[r].recipient, "Low Signal Alert", ok)
       /\ LET q == [req[r] EXCEPT !.mailed = @ + 1] IN
            Finish(r, q, IF ok THEN PingOk(q, None)
                               ELSE PingError("Email delivery failed"))
  /\ UNCHANGED << now, lastPinged, userAlertModeKey, contacts,
                  mobileNetworkInfos, connectivityInfos, alerts, pings, serial, geoVars, call, alertModes >>

\* an alert created without the link to the triggering sample
NewAlert_Unlinked(u, d, ci) ==
  [ userId |-> u, deviceId |-> d, connectivityInfoId |-> 0,
    type |-> "LOW_SIGNAL", message |-> "Low signal detected on your device",
    status |-> "PENDING", mechanism |-> "manual_alert", resolvedAt |-> None ]

\* db.alert.create of the manual path; status defaults to PENDING and
\* resolvedAt to null (model Alert)
NewAlert(u, d, ci) ==
  [ userId |-> u, deviceId |-> d, connectivityInfoId |-> ci,
    type |-> "LOW_SIGNAL", message |-> "Low signal detected on your device",
    status |-> "PENDING", mechanism |-> "manual_alert", resolvedAt |-> None ]

PingCreateAlert(r) ==
  /\ req[r].op = "ping" /\ req[r].pc = "createAlert"
  /\ LET a == NewAlert(req[r].user, req[r].deviceId, req[r].ciId)
         id == Len(alerts) + 1
         q == [req[r] EXCEPT !.alertId = id, !.alert = Some(a)]
     IN /\ alerts' = Append(alerts, a)
        /\ Finish(r, q, PingOk(q, Some(a)))
  /\ UNCHANGED << now, lastPinged, userAlertModeKey, contacts,
                  mobileNetworkInfos, connectivityInfos, emails, pings, serial, geoVars, call, alertModes >>

Ping(r) ==
  \/ StartPing(r)
  \/ PingFindDevice(r)
  \/ PingUpdateDevice(r)
  \/ PingCreateReading(r)
  \/ PingCreateSample(r)
  \/ PingFindUser(r)
  \/ PingFindContacts(r)
  \/ PingSendEmail(r)
  \/ PingCreateAlert(r)

\* --------------------------------------------- controllers/alerts.controller.js
\* the names the alerts controller imports; sendEmail is not one of them,
\* so evaluating the call throws ReferenceError inside the handler's try
AlertsImports == {"express", "db", "verifyToken", "AlertStatus"}

NotFound == Response(404, "Alert not found or access denied")
AlreadyHandled == Response(400, "Alert already handled")

\* db.alert.findUnique({ where: { id } })
FindAlert(id) == IF id \in 1..Len(alerts) THEN Some(alerts[id]) ELSE None

\* a guard that only checks that the alert exists
Denied_NoOwnerCheck(found, u) == IsNone(found)

\* the first guard of confirm and dismiss
Denied(found, u) == IsNone(found) \/ Get(found).userId # u

\* a guard that lets a dismissed alert through
Handled_OnlyConfirmed(a) == a.status = "CONFIRMED"

\* the second guard of confirm and dismiss
Handled(a) == a.status # "PENDING"

\* an update that forgets the timestamp
Resolve_NoTimestamp(a, status, t) == [a EXCEPT !.status = status]

\* db.alert.update({ where: { id }, data: { status, resolvedAt: new Date() } })
Resolve(a, status, t) == [a EXCEPT !.status = status, !.resolvedAt = Some(t)]

StartConfirm(r) ==
  /\ CanStart(r)
  /\ \E u \in Users, id \in AlertIds :
       req' = [req EXCEPT ![r] = [Idle EXCEPT !.op = "confirm", !.pc = "findAlert",
                                   !.user = u, !.alertId = id]]
  /\ UNCHANGED << now, lastPinged, userAlertModeKey, contacts,
                  mobileNetworkInfos, connectivityInfos, alerts, emails, pings, serial, geoVars, call, alertModes >>

ConfirmFindAlert(r) ==
  /\ req[r].op = "confirm" /\ req[r].pc = "findAlert"
  /\ LET found == FindAlert(req[r].alertId) IN
       IF Denied(found, req[r].user) THEN Finish(r, req[r], NotFound)
       ELSE IF Handled(Get(found)) THEN Finish(r, req[r], AlreadyHandled)
       ELSE req' = [req EXCEPT ![r].pc = "updateAlert", ![r].alert = found]
  /\ UNCHANGED << now, lastPinged, userAlertModeKey, contacts,
                  mobileNetworkInfos, connectivityInfos, alerts, emails, pings, serial, geoVars, call, alertModes >>

ConfirmUpdateAlert(r) ==
  /\ req[r].op = "confirm" /\ req[r].pc = "updateAlert"
  /\ LET updatedAlert == Resolve(alerts[req[r].alertId], "CONFIRMED", now) IN
       /\ alerts' = [alerts EXCEPT ![req[r].alertId] = updatedAlert]
       /\ req' = [req EXCEPT ![r].pc = "sendEmail", ![r].wrote = TRUE,
                             ![r].alert = Some(updatedAlert)]
  /\ UNCHANGED << now, lastPinged, userAlertModeKey, contacts,
                  mobileNetworkInfos, connectivityInfos, emails, pings, serial, geoVars, call, alertModes >>

\* line 83 and what follows it: await sendEmail(alert.user.email, ...)
ConfirmSendEmail(r) ==
  /\ req[r].op = "confirm" /\ req[r].pc = "sendEmail"
  /\ IF "sendEmail" \in AlertsImports
       THEN \E ok \in BOOLEAN :
              /\ SendEmail(UserEmail(Get(req[r].alert).userId),
                           "Confirmed Alert: Low signal detected on your device", ok)
              /\ Finish(r, [req[r] EXCEPT !.mailed = @ + 1],
                        IF ok
                          THEN [Response(200, "Alert confirmed and action triggered")
                                  EXCEPT !.alert = req[r].alert]
                          ELSE Response(500, "Email delivery failed"))
       ELSE /\ Finish(r, req[r], Response(500, "sendEmail is not defined"))
            /\ UNCHANGED emails
  /\ UNCHANGED << now, lastPinged, userAlertModeKey, contacts,
                  mobileNetworkInfos, connectivityInfos, alerts, pings, serial, geoVars, call, alertModes >>

Confirm(r) ==
  \/ StartConfirm(r)
  \/ ConfirmFindAlert(r)
  \/ ConfirmUpdateAlert(r)
  \/ ConfirmSendEmail(r)

StartDismiss(r) ==
  /\ CanStart(r)
  /\ \E u \in Users, id \in AlertIds :
       req' = [req EXCEPT ![r] = [Idle EXCEPT !.op = "dismiss", !.pc = "findAlert",
                                   !.user = u, !.alertId = id]]
  /\ UNCHANGED << now, lastPinged, userAlertModeKey, contacts,
                  mobileNetworkInfos, connectivityInfos, alerts, emails, pings, serial, geoVars, call, alertModes >>

DismissFindAlert(r) ==
  /\ req[r].op = "dismiss" /\ req[r].pc = "findAlert"
  /\ LET found == FindAlert(req[r].alertId) IN
       IF Denied(found, req[r].user) THEN Finish(r, req[r], NotFound)
       ELSE IF Handled(Get(found)) THEN Finish(r, req[r], AlreadyHandled)
       ELSE req' = [req EXCEPT ![r].pc = "updateAlert", ![r].alert = found]
  /\ UNCHANGED << now, lastPinged, userAlertModeKey, contacts,
                  mobileNetworkInfos, connectivityInfos, alerts, emails, pings, serial, geoVars, call, alertModes >>

DismissUpdateAlert(r) ==
  /\ req[r].op = "dismiss" /\ req[r].pc = "updateAlert"
  /\ LET updatedAlert == Resolve(alerts[req[r].alertId], "DISMISSED", now) IN
       /\ alerts' = [alerts EXCEPT ![req[r].alertId] = updatedAlert]
       /\ Finish(r, [req[r] EXCEPT !.wrote = TRUE],
                 [Response(200, "Alert dismissed")
                    EXCEPT !.alert = Some(updatedAlert)])
  /\ UNCHANGED << now, lastPinged, userAlertModeKey, contacts,
                  mobileNetworkInfos, connectivityInfos, emails, pings, serial, geoVars, call, alertModes >>

Dismiss(r) ==
  \/ StartDismiss(r)
  \/ DismissFindAlert(r)
  \/ DismissUpdateAlert(r)

\* ------------------------------------------------------- the whole system
Next ==
  \/ Tick
  \/ \E r \in Reqs : Ping(r) \/ Confirm(r) \/ Dismiss(r)

Spec == Init /\ [][Next]_vars

\* the same handlers, requests sent one after another
SpecSeq == InitSeq /\ [][Next]_vars

\* ------------------------------------------ fuzzy location matching
\* Coordinates are whole micro-degrees.  The reports come from one street
\* crossing on the 60th parallel, where a degree of longitude is half as
\* long as a degree of latitude.
Coordinates ==
  { [latitude |-> 60000000 + p[1], longitude |-> 25000000 + p[2]] :
      p \in { <<0, 0>>, <<0, 100>>, <<0, 200>>, <<140, 0>> } }

Abs(x) == IF x < 0 THEN -x ELSE x

\* Math.cos(toRad(lat)) in thousandths, for the parallels of the reports
CosPermille(latitude) ==
  LET degree == latitude \div 1000000 IN
    IF degree = 60 THEN 500 ELSE IF degree = 30 THEN 866 ELSE 1000

\* R * toRad(1): the length of one degree of a great circle, in metres
MetresPerDegree == 111195

\* what a component of a distance is cut off at, in decimetres (3 km)
FarDm == 30000

\* haversineDistance, squared, in square decimetres.  Over the distances
\* compared here (up to the 2 km of place enrichment) the great circle is
\* the straight line with the components R * dLat and R * dLon * cos(lat);
\* a point more than FarDm away along one of them counts as FarDm away.
HaversineSquared(lat1, lon1, lat2, lon2) ==
  LET dLat == (Abs(lat2 - lat1) * MetresPerDegree) \div 100000
      dLon == (((Abs(lon2 - lon1) * MetresPerDegree) \div 100000)
                 * CosPermille(lat1)) \div 1000
      north == IF dLat > FarDm THEN FarDm ELSE dLat
      east  == IF dLon > FarDm THEN FarDm ELSE dLon
  IN north * north + east * east

\* distance <= maxDistanceMeters
WithinMeters(lat1, lon1, lat2, lon2, maxDistanceMeters) ==
  HaversineSquared(lat1, lon1, lat2, lon2)
    <= (maxDistanceMeters * 10) * (maxDistanceMeters * 10)

\* delta of findNearbyLocation: 0.00015 degrees
Delta == 150

\* the where clause of db.location.findMany
InBox(loc, latitude, longitude) ==
  /\ loc.latitude >= latitude - Delta /\ loc.latitude <= latitude + Delta
  /\ loc.longitude >= longitude - Delta /\ loc.longitude <= longitude + Delta

\* findNearbyLocation: the id of the first candidate within the distance,
\* 0 for null
FindNearbyLocation(latitude, longitude, maxDistanceMeters) ==
  LET near == { i \in 1..Len(locations) :
                  /\ InBox(locations[i], latitude, longitude)
                  /\ WithinMeters(latitude, longitude, locations[i].latitude,
                                  locations[i].longitude, maxDistanceMeters) }
  IN IF near = {} THEN 0 ELSE CHOOSE i \in near : \A j \in near : i <= j

\* the default of maxDistanceMeters
DefaultMaxDistance == 15

\* a location as a request body carries it; accuracy is optional
At(c, accuracy) ==
  [latitude |-> c.latitude, longitude |-> c.longitude, accuracy |-> accuracy]

\* a create with the two coordinates in each other's place
NewLocation_Swapped(latitude, longitude, accuracy) ==
  [latitude |-> longitude, longitude |-> latitude, accuracy |-> accuracy]

\* data of db.location.create
NewLocation(latitude, longitude, accuracy) ==
  [latitude |-> latitude, longitude |-> longitude, accuracy |-> accuracy]

\* @@unique([latitude, longitude]) of model Location: a row with exactly
\* these coordinates is stored, so the database refuses another one
UniqueViolation(latitude, longitude) ==
  \E i \in 1..Len(locations) :
    locations[i].latitude = latitude /\ locations[i].longitude = longitude

\* return location, of getOrCreateFuzzyLocation
Resolved(point, id) ==
  resolutions' = Append(resolutions,
                        [ latitude |-> point.latitude,
                          longitude |-> point.longitude, id |-> id ])

\* ----------------------------------- POST /api/connectivity/disconnect
\* the mobileNetworkInfo a disconnect may carry
Readings ==
  { [carrier |-> Some("Vodafone"), signalDbm |-> Some(-95), signalLevel |-> None] }

DisconnectInputs ==
  { [ user |-> "u1", deviceId |-> "d1", location |-> l, mobileNetworkInfo |-> m,
      rest |-> NoRest ] :
      l \in {None} \cup {Some(At(c, None)) : c \in Coordinates},
      m \in {None} \cup {Some(b) : b \in Readings} }
  \cup { [user |-> "u2", deviceId |-> "d1",
          location |-> Some([ latitude |-> 60000000, longitude |-> 25000000,
                              accuracy |-> None ]),
          mobileNetworkInfo |-> None, rest |-> NoRest],
         [user |-> "u1", deviceId |-> "",
          location |-> None, mobileNetworkInfo |-> None, rest |-> NoRest] }

\* a disconnect arrives with one of the bodies
StartDisconnectWith(r, inputs) ==
  /\ CanStart(r)
  /\ disconnects < MaxDisconnects
  /\ disconnects' = disconnects + 1
  /\ \E i \in inputs :
       req' = [req EXCEPT ![r] =
                 [Idle EXCEPT !.op = "disconnect", !.pc = "findDevice",
                              !.user = i.user, !.deviceId = i.deviceId,
                              !.location = i.location,
                              !.mobileNetworkInfo = i.mobileNetworkInfo,
                              !.rest = i.rest]]
  /\ UNCHANGED << now, lastPinged, userAlertModeKey, contacts,
                  mobileNetworkInfos, connectivityInfos, alerts, emails,
                  pings, serial, locations, resolutions, reports, call, alertModes >>

StartDisconnect(r) == StartDisconnectWith(r, DisconnectInputs)

\* location?.latitude && location?.longitude
HasLocation(q) ==
  /\ IsSome(q.location)
  /\ Get(q.location).latitude # 0 /\ Get(q.location).longitude # 0

\* a handler that forgets the reading
AfterLocation_SampleFirst(q) == [q EXCEPT !.pc = "createSample"]

\* where the handler goes once the location is settled
AfterLocation(q) ==
  [q EXCEPT !.pc = IF IsSome(q.mobileNetworkInfo) THEN "createReading"
                                                    ELSE "createSample"]

DisconnectFindDevice(r) ==
  /\ req[r].op = "disconnect" /\ req[r].pc = "findDevice"
  /\ LET q == req[r] IN
       IF q.deviceId = ""
         THEN Finish(r, q, Response(400, "deviceId is required"))
       ELSE IF ~FindDevice(q.deviceId, q.user)
         THEN Finish(r, q, Response(404, "Device not found or not owned by user"))
       ELSE IF HasLocation(q)
         THEN req' = [req EXCEPT ![r].pc = "findNearby"]
       ELSE req' = [req EXCEPT ![r] = AfterLocation(q)]
  /\ UNCHANGED << now, lastPinged, userAlertModeKey, contacts,
                  mobileNetworkInfos, connectivityInfos, alerts, emails,
                  pings, serial, geoVars, call, alertModes >>

\* catch (e) { res.status(500).json({ message: e.message }) }: the answer,
\* unless one was sent before; sending a second one throws inside the catch
\* block and the handler ends with the first answer standing
Caught(q, message) ==
  Answered(q, IF IsSome(q.resp) THEN Get(q.resp) ELSE Response(500, message))

\* getOrCreateFuzzyLocation, first await:
\* let location = await findNearbyLocation(latitude, longitude)
GetOrCreateRead(r) ==
  LET point == Get(req[r].location)
      found == FindNearbyLocation(point.latitude, point.longitude,
                                  DefaultMaxDistance)
  IN IF found # 0
       THEN /\ req' = [req EXCEPT
                         ![r] = AfterLocation([req[r] EXCEPT !.locationId = found])]
            /\ Resolved(point, found)
       ELSE /\ req' = [req EXCEPT ![r].pc = "createLocation"]
            /\ UNCHANGED resolutions

\* a create that overwrites the newest stored row
GetOrCreateWrite_Replacing(r) ==
  LET point == Get(req[r].location)
      row == NewLocation(point.latitude, point.longitude, point.accuracy)
      id == IF locations = << >> THEN 1 ELSE Len(locations)
  IN /\ locations' = IF locations = << >> THEN << row >>
                                            ELSE [locations EXCEPT ![id] = row]
     /\ req' = [req EXCEPT
                  ![r] = AfterLocation([req[r] EXCEPT !.locationId = id])]
     /\ Resolved(point, id)

\* getOrCreateFuzzyLocation, second await:
\* if (!location) location = await db.location.create(...)
GetOrCreateWrite(r) ==
  LET point == Get(req[r].location)
      id == Len(locations) + 1
  IN IF UniqueViolation(point.latitude, point.longitude)
       THEN /\ req' = [req EXCEPT ![r] = Caught(req[r], "Unique constraint failed")]
            /\ UNCHANGED << locations, resolutions >>
       ELSE /\ locations' = Append(locations,
                                   NewLocation(point.latitude, point.longitude,
                                               point.accuracy))
            /\ req' = [req EXCEPT
                         ![r] = AfterLocation([req[r] EXCEPT !.locationId = id])]
            /\ Resolved(point, id)

DisconnectFindNearby(r) ==
  /\ req[r].op = "disconnect" /\ req[r].pc = "findNearby"
  /\ GetOrCreateRead(r)
  /\ UNCHANGED << now, lastPinged, userAlertModeKey, contacts,
                  mobileNetworkInfos, connectivityInfos, alerts, emails,
                  pings, serial, locations, disconnects, reports, call, alertModes >>

DisconnectCreateLocation(r) ==
  /\ req[r].op = "disconnect" /\ req[r].pc = "createLocation"
  /\ GetOrCreateWrite(r)
  /\ UNCHANGED << now, lastPinged, userAlertModeKey, contacts,
                  mobileNetworkInfos, connectivityInfos, alerts, emails,
                  pings, serial, disconnects, reports, call, alertModes >>

DisconnectCreateReading(r) ==
  /\ req[r].op = "disconnect" /\ req[r].pc = "createReading"
  /\ mobileNetworkInfos' =
       Append(mobileNetworkInfos, Get(req[r].mobileNetworkInfo))
  /\ req' = [req EXCEPT ![r].pc = "createSample",
                        ![r].mniId = Len(mobileNetworkInfos) + 1]
  /\ UNCHANGED << now, lastPinged, userAlertModeKey, contacts,
                  connectivityInfos, alerts, emails, pings, serial, geoVars, call, alertModes >>

\* data: { ..., ...rest }: the fields of rest come last and replace the
\* fields of the same name written before them
WithRest(data, rest) ==
  [ data EXCEPT
      !.connectivityType = IF IsSome(rest.connectivityType)
                             THEN Get(rest.connectivityType) ELSE @,
      !.isConnected = IF IsSome(rest.isConnected)
                        THEN Get(rest.isConnected) ELSE @ ]

\* the 201 answer: the sample as stored
Created(log) == [Response(201, "") EXCEPT !.alert = Some(log)]

DisconnectCreateSample(r) ==
  /\ req[r].op = "disconnect" /\ req[r].pc = "createSample"
  /\ LET disconnectLog ==
           WithRest([ deviceId |-> req[r].deviceId,
                      connectivityType |-> "none",
                      isConnected |-> FALSE,
                      locationId |-> req[r].locationId,
                      mobileNetworkInfoId |-> req[r].mniId ], req[r].rest)
         q == [req[r] EXCEPT !.ciId = Len(connectivityInfos) + 1]
     IN /\ connectivityInfos' = Append(connectivityInfos, disconnectLog)
        /\ Finish(r, q, Created(disconnectLog))
  /\ UNCHANGED << now, lastPinged, userAlertModeKey, contacts,
                  mobileNetworkInfos, alerts, emails, pings, serial, geoVars, call, alertModes >>

Disconnect(r) ==
  \/ StartDisconnect(r)
  \/ DisconnectFindDevice(r)
  \/ DisconnectFindNearby(r)
  \/ DisconnectCreateLocation(r)
  \/ DisconnectCreateReading(r)
  \/ DisconnectCreateSample(r)

NextGeo == \E r \in Reqs : Disconnect(r)

\* disconnects of clients that do not wait for each other
SpecGeo == Init /\ [][NextGeo]_vars

NextTelemetry == \E r \in Reqs : Disconnect(r) \/ Ping(r)

\* pings and disconnects, sent one after another
SpecGeoSeq == InitSeq /\ [][NextTelemetry]_vars

\* ------------------------------------------------ POST /api/connectivity
\* two points 5.6 m apart and a third one 56 m from the first
Here == [latitude |-> 60000000, longitude |-> 25000000]
Beside == [latitude |-> 60000000, longitude |-> 25000100]
Away == [latitude |-> 60000000, longitude |-> 25001000]

\* the bodies: complete ones, with or without a location (and its accuracy)
\* and a reading, and bodies without connectivityType, without deviceId,
\* without both, or naming a device id no device has
ReportInputs ==
  { [ user |-> "u1", deviceId |-> "d1", connectivityType |-> "wifi",
      location |-> l, mobileNetworkInfo |-> m, rest |-> NoRest ] :
      l \in { None, Some(At(Here, Some(5))), Some(At(Here, Some(50))),
              Some(At(Beside, Some(50))), Some(At(Away, None)) },
      m \in {None} \cup {Some(b) : b \in Readings} }
  \cup
  { [ user |-> "u1", deviceId |-> i[1], connectivityType |-> i[2],
      location |-> Some(At(Here, Some(5))),
      mobileNetworkInfo |-> Some([ carrier |-> Some("Vodafone"),
                                    signalDbm |-> Some(-95), signalLevel |-> None ]),
      rest |-> NoRest ] :
      i \in { <<"d1", "">>, <<"", "wifi">>, <<"", "">>, <<"d9", "wifi">>,
              <<"d9", "">> } }

StartReport(r) ==
  /\ CanStart(r)
  /\ reports < MaxReports
  /\ reports' = reports + 1
  /\ \E i \in ReportInputs :
       req' = [req EXCEPT ![r] =
                 [Idle EXCEPT !.op = "report", !.pc = "findDevice",
                              !.user = i.user, !.deviceId = i.deviceId,
                              !.connectivityType = i.connectivityType,
                              !.location = i.location,
                              !.mobileNetworkInfo = i.mobileNetworkInfo,
                              !.rest = i.rest]]
  /\ UNCHANGED << now, lastPinged, userAlertModeKey, contacts,
                  mobileNetworkInfos, connectivityInfos, alerts, emails,
                  pings, serial, locations, resolutions, disconnects, call,
                  alertModes >>

\* res.status(400).json(...) with no return after it: the answer goes out
\* and the handler runs on
Sent(q, code, message) == [q EXCEPT !.resp = Some(Response(code, message))]

\* the handler from the location step on
ToLocation(q) == IF HasLocation(q) THEN [q EXCEPT !.pc = "findNearby"]
                                   ELSE AfterLocation(q)

\* the two body checks, db.deviceInfo.findUnique({ where: { id } }) and the
\* check of its result.  A second res.status(400).json on an answered
\* request throws: outside the try it ends the handler, inside it the catch
\* block throws in turn; findUnique without an id throws as well.
ReportFindDevice(r) ==
  /\ req[r].op = "report" /\ req[r].pc = "findDevice"
  /\ LET q == req[r]
         q1 == IF q.connectivityType = ""
                 THEN Sent(q, 400, "connectivityType is missing") ELSE q
     IN IF q.deviceId = ""
          THEN req' = [req EXCEPT ![r] =
                         IF IsSome(q1.resp) THEN Answered(q1, Get(q1.resp))
                         ELSE Caught(Sent(q1, 400, "deviceId is missing"),
                                     "Argument where needs an id")]
        ELSE IF q.deviceId \notin Devices
          THEN req' = [req EXCEPT ![r] =
                         IF IsSome(q1.resp)
                           THEN Caught(q1, "Cannot set headers after they are sent")
                           ELSE ToLocation(Sent(q1, 400, "device not found"))]
        ELSE req' = [req EXCEPT ![r] = ToLocation(q1)]
  /\ UNCHANGED << now, lastPinged, userAlertModeKey, contacts,
                  mobileNetworkInfos, connectivityInfos, alerts, emails,
                  pings, serial, geoVars, call, alertModes >>

ReportFindNearby(r) ==
  /\ req[r].op = "report" /\ req[r].pc = "findNearby"
  /\ GetOrCreateRead(r)
  /\ UNCHANGED << now, lastPinged, userAlertModeKey, contacts,
                  mobileNetworkInfos, connectivityInfos, alerts, emails,
                  pings, serial, locations, disconnects, reports, call, alertModes >>

ReportCreateLocation(r) ==
  /\ req[r].op = "report" /\ req[r].pc = "createLocation"
  /\ GetOrCreateWrite(r)
  /\ UNCHANGED << now, lastPinged, userAlertModeKey, contacts,
                  mobileNetworkInfos, connectivityInfos, alerts, emails,
                  pings, serial, disconnects, reports, call, alertModes >>

ReportCreateReading(r) ==
  /\ req[r].op = "report" /\ req[r].pc = "createReading"
  /\ mobileNetworkInfos' =
       Append(mobileNetworkInfos, Get(req[r].mobileNetworkInfo))
  /\ req' = [req EXCEPT ![r].pc = "createSample",
                        ![r].mniId = Len(mobileNetworkInfos) + 1]
  /\ UNCHANGED << now, lastPinged, userAlertModeKey, contacts,
                  connectivityInfos, alerts, emails, pings, serial, geoVars, call, alertModes >>

\* db.connectivityInfo.create, which refuses a row without the required
\* connectivityType, and res.status(201).json(log), which throws on an
\* answered request
ReportCreateSample(r) ==
  /\ req[r].op = "report" /\ req[r].pc = "createSample"
  /\ LET q == req[r] IN
       IF q.connectivityType = ""
         THEN /\ req' = [req EXCEPT ![r] =
                           Caught(q, "Argument connectivityType is missing")]
              /\ UNCHANGED connectivityInfos
         ELSE LET log == WithRest([ deviceId |-> q.deviceId,
                                    connectivityType |-> q.connectivityType,
                                    isConnected |-> TRUE,
                                    locationId |-> q.locationId,
                                    mobileNetworkInfoId |-> q.mniId ], q.rest)
                  q1 == [q EXCEPT !.ciId = Len(connectivityInfos) + 1]
              IN /\ connectivityInfos' = Append(connectivityInfos, log)
                 /\ req' = [req EXCEPT ![r] =
                              IF IsSome(q.resp)
                                THEN Caught(q1, "Cannot set headers after they are sent")
                                ELSE Answered(q1, Created(log))]
  /\ UNCHANGED << now, lastPinged, userAlertModeKey, contacts,
                  mobileNetworkInfos, alerts, emails, pings, serial, geoVars, call, alertModes >>

Report(r) ==
  \/ StartReport(r)
  \/ ReportFindDevice(r)
  \/ ReportFindNearby(r)
  \/ ReportCreateLocation(r)
  \/ ReportCreateReading(r)
  \/ ReportCreateSample(r)

NextReport == \E r \in Reqs : Report(r)

\* reports sent one after another to an empty store
SpecReport == InitEmpty /\ [][NextReport]_vars

\* ------------------------------- disconnects whose body carries more fields
\* ...rest: a connectivityType, an isConnected, both or neither
Rests ==
  { [connectivityType |-> c, isConnected |-> i] :
      c \in {None, Some("wifi")}, i \in {None, Some(TRUE), Some(FALSE)} }

RestInputs ==
  { [ user |-> "u1", deviceId |-> "d1", location |-> l, mobileNetworkInfo |-> m,
      rest |-> x ] :
      l \in {None, Some(At([latitude |-> 60000000, longitude |-> 25000000], None))},
      m \in {None} \cup {Some(b) : b \in Readings},
      x \in Rests }
  \cup { [ user |-> "u2", deviceId |-> "d1", location |-> None,
           mobileNetworkInfo |-> None,
           rest |-> [connectivityType |-> None, isConnected |-> Some(TRUE)] ] }

StartDisconnectWithRest(r) == StartDisconnectWith(r, RestInputs)

NextRest ==
  \E r \in Reqs :
    \/ StartDisconnectWithRest(r)
    \/ DisconnectFindDevice(r)
    \/ DisconnectFindNearby(r)
    \/ DisconnectCreateLocation(r)
    \/ DisconnectCreateReading(r)
    \/ DisconnectCreateSample(r)

\* such disconnects, sent one after another to an empty store
SpecRest == InitEmpty /\ [][NextRest]_vars

\* ------------------------------------- a device pinging over a longer period
\* the same handler, watched for MaxClock minutes and MaxLivePings pings;
\* a ping may also name a device id that no device has
LivePingInputs == PingInputs \cup { [user |-> "u1", deviceId |-> "d9"] }

TickLive == TickTo(MaxClock)

StartLivePing(r) == StartPingWithin(r, MaxLivePings, LivePingInputs)

NextPings ==
  \/ TickLive
  \/ \E r \in Reqs :
       \/ StartLivePing(r)
       \/ PingFindDevice(r)
       \/ PingUpdateDevice(r)
       \/ PingCreateReading(r)
       \/ PingCreateSample(r)
       \/ PingFindUser(r)
       \/ PingFindContacts(r)
       \/ PingSendEmail(r)
       \/ PingCreateAlert(r)

\* pings sent one after another
SpecPingsSeq == InitSeq /\ [][NextPings]_vars

\* ------------------------------ one device pinged on two connections at once
\* the owner's pings of the device
RacingInputs == { [user |-> "u1", deviceId |-> "d1"] }

StartRacingPing(r) == StartPingWithin(r, MaxLivePings, RacingInputs)

NextRace ==
  \/ Tick
  \/ \E r \in Reqs :
       \/ StartRacingPing(r)
       \/ PingFindDevice(r)
       \/ PingUpdateDevice(r)
       \/ PingCreateReading(r)
       \/ PingCreateSample(r)
       \/ PingFindUser(r)
       \/ PingFindContacts(r)
       \/ PingSendEmail(r)
       \/ PingCreateAlert(r)

\* pings of clients that do not wait for each other
SpecPingsRace == Init /\ [][NextRace]_vars

\* ------------------------------------------- the low-signal rule on its own
\* what a client may put in signalDbm or signalLevel
RawValues ==
  {Absent, Text} \cup {Num(n) : n \in {-101, -100, -99, 0, 1, 2}}

\* everything but the function under study stands still
Still ==
  UNCHANGED << now, lastPinged, userAlertModeKey, contacts, mobileNetworkInfos,
               connectivityInfos, alerts, emails, req, pings, serial, geoVars,
               alertModes >>

InitLowSignal ==
  /\ Quiet /\ NoRows
  /\ \E d \in RawValues, l \in RawValues :
       call = [ fn |-> "isLowSignal", signalDbm |-> d, signalLevel |-> l,
                pc |-> "call", result |-> FALSE ]

ApplyIsLowSignal ==
  /\ call.fn = "isLowSignal" /\ call.pc = "call"
  /\ call' = [call EXCEPT !.pc = "done",
                          !.result = IsLowSignal(call.signalDbm, call.signalLevel)]
  /\ Still

SpecLowSignal == InitLowSignal /\ [][ApplyIsLowSignal]_vars

\* ------------------------------ lib/3rd_party/googleplaces/analyze-signal.js
\* a JS number that is a quotient of integers: num / den, den > 0
Whole(n) == [num |-> n, den |-> 1]
\* x >= n
AtLeast(x, n) == x.num >= n * x.den

\* bands that leave out their lower bound
ClassifySignal_Exclusive(avgDbm) ==
  IF avgDbm.num > -70 * avgDbm.den THEN "Excellent"
  ELSE IF avgDbm.num > -85 * avgDbm.den THEN "Good"
  ELSE IF avgDbm.num > -100 * avgDbm.den THEN "Weak"
  ELSE "No Signal"

\* classifySignal
ClassifySignal(avgDbm) ==
  IF AtLeast(avgDbm, -70) THEN "Excellent"
  ELSE IF AtLeast(avgDbm, -85) THEN "Good"
  ELSE IF AtLeast(avgDbm, -100) THEN "Weak"
  ELSE "No Signal"

\* the dBm values classified
DbmRange == (-110)..(-60)

InitClassify ==
  /\ Quiet /\ NoRows
  /\ \E a \in DbmRange, b \in DbmRange :
       call = [fn |-> "classifySignal", inputs |-> <<a, b>>, results |-> << >>]

\* classifySignal applied to the next input
ApplyClassifySignal ==
  /\ call.fn = "classifySignal"
  /\ Len(call.results) < Len(call.inputs)
  /\ call' = [call EXCEPT !.results =
                Append(@, ClassifySignal(Whole(call.inputs[Len(call.results) + 1])))]
  /\ Still

SpecClassify == InitClassify /\ [][ApplyClassifySignal]_vars

\* the carrier names and dBm values a stored reading may have
Carriers == {None, Some(""), Some("Vodafone"), Some("VODAFONE"), Some("Orange")}
Dbms == {None, Some(-80), Some(-90), Some(-91), Some(-100)}

\* a string without letters in lower case
ToUpperCase_Identity(name) == name

\* String.prototype.toUpperCase, on the names above
ToUpperCase(name) ==
  IF name = "Vodafone" THEN "VODAFONE"
  ELSE IF name = "Orange" THEN "ORANGE"
  ELSE name

\* Math.round of num / den: the nearest integer, a half going up
Round(x) == (2 * x.num + x.den) \div (2 * x.den)

\* the place analysed and a place 22 m east of it
Place == [latitude |-> 60000000, longitude |-> 25000000, accuracy |-> None]
OtherPlace == [latitude |-> 60000000, longitude |-> 25000400, accuracy |-> None]

\* a sample as the connectivity handlers store it
SampleAt(locationId, mobileNetworkInfoId) ==
  [ deviceId |-> "d1", connectivityType |-> "mobile", isConnected |-> TRUE,
    locationId |-> locationId, mobileNetworkInfoId |-> mobileNetworkInfoId ]

\* the store analysed: n samples with a reading at Place, then a sample at
\* Place without a reading and a sample with a reading at OtherPlace
InitCarrier ==
  /\ Quiet
  /\ locations = << Place, OtherPlace >>
  /\ \E n \in 0..MaxSamples :
       \E c \in [1..n -> Carriers], d \in [1..n -> Dbms] :
         /\ mobileNetworkInfos =
              [ i \in 1..(n + 1) |->
                  IF i <= n
                    THEN [carrier |-> c[i], signalDbm |-> d[i], signalLevel |-> None]
                    ELSE [ carrier |-> Some("Vodafone"), signalDbm |-> Some(-60),
                           signalLevel |-> None ] ]
         /\ connectivityInfos =
              [ i \in 1..(n + 2) |->
                  IF i <= n THEN SampleAt(1, i)
                  ELSE IF i = n + 1 THEN SampleAt(2, n + 1)
                  ELSE SampleAt(1, 0) ]
  /\ \E p \in { <<0, 100>>, <<140, 0>> } :
       call = [ fn |-> "classifySignalByCarrier",
                lat |-> Place.latitude + p[1], lng |-> Place.longitude + p[2],
                maxDistance |-> DefaultMaxDistance,
                pc |-> "findNearby", locationId |-> 0, result |-> << >> ]

\* db.connectivityInfo.findMany: the readings of the samples at the location
\* that have one, in stored order
RECURSIVE LogsUpTo(_, _)
LogsUpTo(locationId, n) ==
  IF n = 0 THEN << >>
  ELSE LET log == connectivityInfos[n]
           before == LogsUpTo(locationId, n - 1)
       IN IF log.locationId = locationId /\ log.mobileNetworkInfoId # 0
            THEN Append(before, mobileNetworkInfos[log.mobileNetworkInfoId])
            ELSE before

\* the test that lets a reading into a group: a truthy carrier, a number
Counted(info) ==
  /\ IsSome(info.carrier) /\ Get(info.carrier) # ""
  /\ IsSome(info.signalDbm)

\* the keys of grouped, in the order they were added
RECURSIVE GroupKeys(_)
GroupKeys(logs) ==
  IF logs = << >> THEN << >>
  ELSE LET before == GroupKeys(SubSeq(logs, 1, Len(logs) - 1))
           info == logs[Len(logs)]
       IN IF Counted(info)
             /\ \A k \in 1..Len(before) :
                  before[k] # ToUpperCase(Get(info.carrier))
            THEN Append(before, ToUpperCase(Get(info.carrier)))
            ELSE before

\* grouped[carrier] after the loop
RECURSIVE Grouped(_, _)
Grouped(logs, carrier) ==
  IF logs = << >> THEN [total |-> 0, count |-> 0]
  ELSE LET before == Grouped(SubSeq(logs, 1, Len(logs) - 1), carrier)
           info == logs[Len(logs)]
       IN IF Counted(info) /\ ToUpperCase(Get(info.carrier)) = carrier
            THEN [ total |-> before.total + Get(info.signalDbm),
                   count |-> before.count + 1 ]
            ELSE before

\* a list whose labels are those of the rounded values
Entries_LabelOfRounded(logs) ==
  LET keys == GroupKeys(logs) IN
    [ k \in 1..Len(keys) |->
        LET g == Grouped(logs, keys[k])
            avgDbm == [num |-> g.total, den |-> g.count]
        IN [ carrier |-> keys[k], avgDbm |-> Round(avgDbm),
             quality |-> ClassifySignal(Whole(Round(avgDbm))), count |-> g.count ] ]

\* Object.entries(grouped).map(...)
Entries(logs) ==
  LET keys == GroupKeys(logs) IN
    [ k \in 1..Len(keys) |->
        LET g == Grouped(logs, keys[k])
            avgDbm == [num |-> g.total, den |-> g.count]
        IN [ carrier |-> keys[k], avgDbm |-> Round(avgDbm),
             quality |-> ClassifySignal(avgDbm), count |-> g.count ] ]

\* a lookup that creates the Location it does not find
CarrierFindLocation_Creating ==
  /\ call.fn = "classifySignalByCarrier" /\ call.pc = "findNearby"
  /\ LET found == FindNearbyLocation(call.lat, call.lng, call.maxDistance) IN
       IF found # 0
         THEN /\ call' = [call EXCEPT !.locationId = found, !.pc = "findLogs"]
              /\ UNCHANGED locations
         ELSE /\ locations' = Append(locations,
                                     NewLocation(call.lat, call.lng, None))
              /\ call' = [call EXCEPT !.locationId = Len(locations) + 1,
                                      !.pc = "findLogs"]
  /\ UNCHANGED << now, lastPinged, userAlertModeKey, contacts, mobileNetworkInfos,
                  connectivityInfos, alerts, emails, req, pings, serial,
                  resolutions, disconnects, reports, alertModes >>

\* const location = await findNearbyLocation(lat, lng, maxDistance)
CarrierFindLocation ==
  /\ call.fn = "classifySignalByCarrier" /\ call.pc = "findNearby"
  /\ LET found == FindNearbyLocation(call.lat, call.lng, call.maxDistance) IN
       call' = [call EXCEPT !.locationId = found,
                            !.pc = IF found = 0 THEN "done" ELSE "findLogs"]
  /\ Still

\* the query, the grouping loop and the returned list
CarrierAggregate ==
  /\ call.fn = "classifySignalByCarrier" /\ call.pc = "findLogs"
  /\ call' = [call EXCEPT
                !.pc = "done",
                !.result = Entries(LogsUpTo(call.locationId, Len(connectivityInfos)))]
  /\ Still

NextCarrier == CarrierFindLocation \/ CarrierAggregate

SpecCarrier == InitCarrier /\ [][NextCarrier]_vars

\* ------------------------------------------ enrichGoogleCandidate
\* the radius place enrichment asks for: classifySignalByCarrier(lat, lng, 2000)
EnrichMaxDistance == 2000

\* where the candidate place lies, in micro-degrees north and east of the
\* stored Location: on it, 5.6 m, 12.4 m, 22 m and 1 km away
PlaceOffsets == { <<0, 0>>, <<0, 100>>, <<100, 100>>, <<0, 400>>, <<9000, 0>> }

\* one stored Location with up to MaxSamples samples that carry a reading,
\* and a candidate place near it
InitEnrich ==
  /\ Quiet
  /\ locations = << Place >>
  /\ \E n \in 0..MaxSamples :
       \E c \in [1..n -> {Some("Vodafone"), Some("Orange")}],
          d \in [1..n -> {Some(-80), Some(-100)}] :
         /\ mobileNetworkInfos =
              [ i \in 1..n |->
                  [carrier |-> c[i], signalDbm |-> d[i], signalLevel |-> None] ]
         /\ connectivityInfos = [ i \in 1..n |-> SampleAt(1, i) ]
  /\ \E p \in PlaceOffsets :
       call = [ fn |-> "classifySignalByCarrier",
                lat |-> Place.latitude + p[1], lng |-> Place.longitude + p[2],
                maxDistance |-> EnrichMaxDistance,
                pc |-> "findNearby", locationId |-> 0, result |-> << >> ]

\* signalByCarrier of one candidate
SpecEnrich == InitEnrich /\ [][NextCarrier]_vars

\* ------------------------------------- controllers/alert-mode.controller.js
\* User.role: u2 is the administrator
Role(u) == IF u = "u2" THEN "ADMIN" ELSE "USER"

\* the ids a DELETE may name: those a create can have given and one more
ModeIds == 1..(MaxModes + 1)

\* the bodies of POST /api/alert-modes
ModeInputs ==
  { [key |-> "auto_alert", label |-> "Automatic"],
    [key |-> "manual_alert", label |-> "Manual"],
    [key |-> "", label |-> "Automatic"] }

\* what the alert-mode handlers leave alone
ModesFrame ==
  UNCHANGED << now, lastPinged, contacts, mobileNetworkInfos, connectivityInfos,
               alerts, emails, pings, serial, geoVars, call >>

StartCreateMode(r) ==
  /\ CanStart(r)
  /\ alertModes.created
       + Cardinality({p \in InFlight : req[p].op = "createMode"}) < MaxModes
  /\ \E u \in Users, i \in ModeInputs :
       req' = [req EXCEPT ![r] = [Idle EXCEPT !.op = "createMode", !.pc = "create",
                                   !.user = u, !.key = i.key, !.label = i.label]]
  /\ UNCHANGED << alertModes, userAlertModeKey >>
  /\ ModesFrame

\* the role check, the body check and db.alertMode.create; key is @unique
CreateModeCreate(r) ==
  /\ req[r].op = "createMode" /\ req[r].pc = "create"
  /\ LET q == req[r] IN
       IF Role(q.user) # "ADMIN"
         THEN Finish(r, q, Response(403, "Forbidden")) /\ UNCHANGED alertModes
       ELSE IF q.key = "" \/ q.label = ""
         THEN /\ Finish(r, q, Response(400, "key and label are required"))
              /\ UNCHANGED alertModes
       ELSE IF \E i \in 1..Len(alertModes.rows) : alertModes.rows[i].key = q.key
         THEN /\ Finish(r, q, Response(500, "Unique constraint failed"))
              /\ UNCHANGED alertModes
       ELSE LET id == alertModes.created + 1 IN
              /\ alertModes' =
                   [ rows |-> Append(alertModes.rows, [id |-> id, key |-> q.key]),
                     created |-> id ]
              /\ Finish(r, [q EXCEPT !.modeId = id, !.wrote = TRUE],
                        Response(201, ""))
  /\ UNCHANGED userAlertModeKey
  /\ ModesFrame

CreateMode(r) == StartCreateMode(r) \/ CreateModeCreate(r)

StartDeleteMode(r) ==
  /\ CanStart(r)
  /\ \E u \in Users, id \in ModeIds :
       req' = [req EXCEPT ![r] = [Idle EXCEPT !.op = "deleteMode", !.pc = "findFirst",
                                   !.user = u, !.modeId = id]]
  /\ UNCHANGED << alertModes, userAlertModeKey >>
  /\ ModesFrame

\* the names bound where the delete handler compares firstRecord.id: its
\* parameters and locals and the imports of the file; id is not one of
\* them, so evaluating the comparison throws ReferenceError inside the try
DeleteScope ==
  { "express", "db", "verifyToken", "UserRole", "router",
    "req", "res", "user", "firstRecord", "totalCount", "deleted" }

\* the role check, db.alertMode.findFirst({ orderBy: { createdAt: 'asc' } })
\* and the test on its result
DeleteFindFirst(r) ==
  /\ req[r].op = "deleteMode" /\ req[r].pc = "findFirst"
  /\ LET q == req[r]
         firstRecord == IF alertModes.rows = << >> THEN None
                                                  ELSE Some(alertModes.rows[1])
     IN IF Role(q.user) # "ADMIN"
          THEN Finish(r, q, Response(403, "Forbidden"))
        ELSE IF IsNone(firstRecord)
          THEN req' = [req EXCEPT ![r].pc = "count"]
        ELSE IF "id" \notin DeleteScope
          THEN Finish(r, q, Response(500, "id is not defined"))
        ELSE IF Get(firstRecord).id = q.modeId
          THEN Finish(r, q, Response(403, "Cannot delete the first alert mode."))
        ELSE req' = [req EXCEPT ![r].pc = "count"]
  /\ UNCHANGED << alertModes, userAlertModeKey >>
  /\ ModesFrame

\* db.alertMode.count() and the test on it
DeleteCount(r) ==
  /\ req[r].op = "deleteMode" /\ req[r].pc = "count"
  /\ IF Len(alertModes.rows) <= 1
       THEN Finish(r, req[r],
                   Response(400, "Cannot delete the last remaining alert mode."))
       ELSE req' = [req EXCEPT ![r].pc = "delete"]
  /\ UNCHANGED << alertModes, userAlertModeKey >>
  /\ ModesFrame

\* db.alertMode.delete({ where: { id: req.params.id } }); the users of the
\* mode lose it (onDelete: SetNull)
DeleteDelete(r) ==
  /\ req[r].op = "deleteMode" /\ req[r].pc = "delete"
  /\ LET q == req[r]
         hit == { i \in 1..Len(alertModes.rows) : alertModes.rows[i].id = q.modeId }
     IN IF hit = {}
          THEN /\ Finish(r, q, Response(500, "Record to delete does not exist."))
               /\ UNCHANGED << alertModes, userAlertModeKey >>
          ELSE LET deleted == alertModes.rows[CHOOSE i \in hit : TRUE] IN
                 /\ alertModes' =
                      [ alertModes EXCEPT
                          !.rows = SelectSeq(@, LAMBDA m : m.id # q.modeId) ]
                 /\ userAlertModeKey' =
                      [ u \in Users |->
                          IF userAlertModeKey[u] = Some(deleted.key)
                            THEN None ELSE userAlertModeKey[u] ]
                 /\ Finish(r, [q EXCEPT !.wrote = TRUE],
                           Response(200, "Alert mode deleted"))
  /\ ModesFrame

DeleteMode(r) ==
  \/ StartDeleteMode(r)
  \/ DeleteFindFirst(r)
  \/ DeleteCount(r)
  \/ DeleteDelete(r)

\* an empty AlertMode collection, clients that do not wait for each other
InitModes == Calm /\ serial = FALSE /\ NoRows /\ call = NoCall

NextModes == \E r \in Reqs : CreateMode(r) \/ DeleteMode(r)

SpecModes == InitModes /\ [][NextModes]_vars

\* ------------------------------------------------------------ vocabulary
AlertRequest(r) == req[r].op \in {"confirm", "dismiss"}
Steps(r) == req'[r] # req[r]
Finishes(r) == req[r].pc # "done" /\ req'[r].pc = "done"
Done(r) == req[r].pc = "done"
Answer(r) == Get(req[r].resp)
Exists(id) == id \in 1..Len(alerts)
Owns(r) == Exists(req[r].alertId) /\ alerts[req[r].alertId].userId = req[r].user
Terminal(a) == a.status \in {"CONFIRMED", "DISMISSED"}
\* a ping that reaches the alert dispatch step: low signal, own device
LowSignalPing(r) ==
  /\ req[r].op = "ping"
  /\ FindDevice(req[r].deviceId, req[r].user)
  /\ IsLowSignal(req[r].dbm, req[r].level)
KeyOf(r) == userAlertModeKey[req[r].user]

\* C1: once an alert is CONFIRMED or DISMISSED, its status and resolvedAt
\* never change again, and a confirm or dismiss by its owner that reads it
\* in that state is answered 400 'Alert already handled' (requests handled
\* one after another).
C1_TerminalStaysTerminal ==
  [][ /\ \A id \in 1..Len(alerts) :
           Terminal(alerts[id]) =>
             /\ alerts'[id].status = alerts[id].status
             /\ alerts'[id].resolvedAt = alerts[id].resolvedAt
      /\ \A r \in Reqs :
           ( /\ AlertRequest(r) /\ req[r].pc = "findAlert" /\ Steps(r)
             /\ Owns(r) /\ Terminal(alerts[req[r].alertId]) )
           => /\ req'[r].pc = "done"
              /\ req'[r].resp = Some(Response(400, "Alert already handled"))
              /\ alerts' = alerts
    ]_vars

C1_Witness ==
  \E r \in Reqs :
    /\ AlertRequest(r) /\ Done(r) /\ Owns(r)
    /\ Answer(r).code = 400
    /\ Terminal(alerts[req[r].alertId])

\* C2: of the confirm and dismiss requests on one alert, at most one
\* writes the status and is answered 200.
C2_AtMostOneSucceeds ==
  \A id \in AlertIds :
    Cardinality({ r \in Reqs : /\ AlertRequest(r) /\ req[r].alertId = id
                               /\ Done(r) /\ req[r].wrote
                               /\ Answer(r).code = 200 }) <= 1

\* C3: a low-signal ping of a user on the manual mechanism ends by creating
\* one alert: PENDING, resolvedAt null, LOW_SIGNAL, manual, linked to the
\* user, the device and the sample this ping created; it is the only alert
\* linked to that sample, it is the pendingAlert of the answer, and the
\* ping sends no email.
C3_ManualCreatesOnePending ==
  [][ \A r \in Reqs :
        ( LowSignalPing(r) /\ KeyOf(r) = Some("manual_alert") /\ Finishes(r) )
        => /\ Len(alerts') = Len(alerts) + 1
           /\ LET a == alerts'[Len(alerts')] IN
                /\ a.status = "PENDING" /\ a.resolvedAt = None
                /\ a.type = "LOW_SIGNAL" /\ a.mechanism = "manual_alert"
                /\ a.userId = req[r].user /\ a.deviceId = req[r].deviceId
                /\ a.connectivityInfoId = req[r].ciId
                /\ req[r].ciId \in 1..Len(connectivityInfos)
                /\ connectivityInfos[req[r].ciId].deviceId = req[r].deviceId
                /\ Cardinality({ id \in 1..Len(alerts') :
                       alerts'[id].connectivityInfoId = req[r].ciId }) = 1
                /\ req'[r].resp # None
                /\ Get(req'[r].resp).code = 200
                /\ Get(req'[r].resp).alert = Some(a)
           /\ emails' = emails
           /\ req[r].mailed = 0
    ]_vars

C3_Witness ==
  \E r \in Reqs :
    /\ LowSignalPing(r) /\ KeyOf(r) = Some("manual_alert") /\ Done(r)
    /\ Answer(r).alert # None
    /\ Len(alerts) = 1

\* C4: no step of a low-signal ping of a user on the automatic mechanism
\* changes the Alert rows, and its answer has no pendingAlert.
C4_AutoCreatesNoAlert ==
  [][ \A r \in Reqs :
        ( LowSignalPing(r) /\ KeyOf(r) = Some("auto_alert") /\ Steps(r) )
        => /\ alerts' = alerts
           /\ req'[r].pc = "done" => Get(req'[r].resp).alert = None
    ]_vars

C4_Witness ==
  \E r \in Reqs :
    /\ LowSignalPing(r) /\ KeyOf(r) = Some("auto_alert") /\ Done(r)
    /\ req[r].mailed = 1
    /\ alerts = << >>

\* C5: a confirm that passed both guards has set the alert CONFIRMED with
\* resolvedAt set, made exactly one email attempt, to the alert's user, and
\* is answered 200 with the updated alert.
C5_ConfirmNotifiesAndAnswers200 ==
  \A r \in Reqs :
    ( req[r].op = "confirm" /\ Done(r) /\ req[r].wrote )
    => /\ Answer(r).code = 200
       /\ Answer(r).alert # None
       /\ Get(Answer(r).alert).status = "CONFIRMED"
       /\ IsSome(Get(Answer(r).alert).resolvedAt)
       /\ req[r].mailed = 1
       /\ \E e \in 1..Len(emails) : emails[e].to = UserEmail(req[r].user)

\* C6: a dismiss that reads a PENDING alert of its user goes on to the
\* update; the update leaves the row DISMISSED with resolvedAt set and is
\* answered 200 with that row; no step of a dismiss sends an email.
C6_DismissResolvesSilently ==
  [][ \A r \in Reqs :
        ( req[r].op = "dismiss" /\ Steps(r) )
        => /\ ( /\ req[r].pc = "findAlert" /\ Owns(r)
                /\ alerts[req[r].alertId].status = "PENDING" )
              => /\ req'[r].pc = "updateAlert"
                 /\ alerts' = alerts
           /\ req[r].pc = "updateAlert"
              => /\ alerts'[req[r].alertId].status = "DISMISSED"
                 /\ IsSome(alerts'[req[r].alertId].resolvedAt)
                 /\ req'[r].pc = "done"
                 /\ Get(req'[r].resp).code = 200
                 /\ Get(req'[r].resp).alert = Some(alerts'[req[r].alertId])
           /\ emails' = emails
           /\ req[r].mailed = 0
    ]_vars

C6_Witness ==
  \E r \in Reqs :
    /\ req[r].op = "dismiss" /\ Done(r) /\ Answer(r).code = 200
    /\ alerts[req[r].alertId].status = "DISMISSED"
    /\ IsSome(alerts[req[r].alertId].resolvedAt)
    /\ emails = << >>

\* C7: a confirm or dismiss whose alert id does not exist, or exists and
\* belongs to another user (in any status), ends at once with the one answer
\* 404 'Alert not found or access denied', writes no alert, sends no email.
C7_NotOwnedLooksNotFound ==
  [][ \A r \in Reqs :
        ( /\ AlertRequest(r) /\ req[r].pc = "findAlert" /\ Steps(r)
          /\ ~Owns(r) )
        => /\ req'[r].pc = "done"
           /\ req'[r].resp = Some(Response(404, "Alert not found or access denied"))
           /\ ~req'[r].wrote /\ req'[r].mailed = 0
           /\ alerts' = alerts
           /\ emails' = emails
    ]_vars

C7_Witness ==
  \E r1, r2 \in Reqs :
    /\ AlertRequest(r1) /\ Done(r1) /\ AlertRequest(r2) /\ Done(r2)
    /\ Exists(req[r1].alertId) /\ alerts[req[r1].alertId].userId # req[r1].user
    /\ ~Exists(req[r2].alertId)
    /\ Answer(r1).code = 404
    /\ req[r1].resp = req[r2].resp

\* C8: no step of a low-signal ping of a user without alert mode, or with a
\* key that is neither auto_alert nor manual_alert, writes an alert or sends
\* an email; the ping is answered 200 without pendingAlert.
C8_UnknownModeDoesNothing ==
  [][ \A r \in Reqs :
        ( /\ LowSignalPing(r) /\ Steps(r)
          /\ KeyOf(r) \notin {Some("auto_alert"), Some("manual_alert")} )
        => /\ alerts' = alerts
           /\ emails' = emails
           /\ req'[r].mailed = 0
           /\ req'[r].pc = "done"
              => /\ Get(req'[r].resp).code = 200
                 /\ Get(req'[r].resp).alert = None
    ]_vars

C8_Witness ==
  \E r \in Reqs :
    /\ LowSignalPing(r) /\ Done(r)
    /\ KeyOf(r) = Some("sms_alert")
    /\ Answer(r).warning
    /\ Len(connectivityInfos) = 1 /\ alerts = << >> /\ emails = << >>

\* the recipient the automatic path is meant to pick
FirstEmergencyOrSelf(u) ==
  LET idx == { i \in 1..Len(contacts[u]) : contacts[u][i].type = "EMERGENCY" }
  IN IF idx = {} THEN UserEmail(u)
     ELSE contacts[u][CHOOSE i \in idx : \A j \in idx : i <= j].email

\* C9: a low-signal ping of a user on the automatic mechanism ends with its
\* only sendEmail call, addressed to the first EMERGENCY contact of the user
\* or, without one, to the user's own email; never to a FAVORITE contact.
C9_AutoRecipient ==
  [][ \A r \in Reqs :
        ( LowSignalPing(r) /\ KeyOf(r) = Some("auto_alert") /\ Finishes(r) )
        => /\ req[r].mailed = 0 /\ req'[r].mailed = 1
           /\ Len(emails') = Len(emails) + 1
           /\ SubSeq(emails', 1, Len(emails)) = emails
           /\ emails'[Len(emails')].to = FirstEmergencyOrSelf(req[r].user)
           /\ \A i \in 1..Len(contacts[req[r].user]) :
                contacts[req[r].user][i].type = "FAVORITE"
                => emails'[Len(emails')].to # contacts[req[r].user][i].email
    ]_vars

C9_Witness ==
  \E r \in Reqs :
    /\ LowSignalPing(r) /\ KeyOf(r) = Some("auto_alert") /\ Done(r)
    /\ req[r].mailed = 1
    /\ Len(contacts[req[r].user]) = 3
    /\ contacts[req[r].user][1].type = "FAVORITE"
    /\ emails[Len(emails)].to = "em1@mail"

\* C10: a refused delivery ends the request with a 500 answer and leaves
\* every row as it was, the reading, the sample and the lastPinged value
\* written by the same ping included; a confirm that ends with a 500 answer
\* leaves the alert as its update wrote it, CONFIRMED with resolvedAt set
\* (requests handled one after another).
C10_FailureKeepsWhatWasWritten ==
  [][ \A r \in Reqs :
        /\ ( /\ Steps(r) /\ Len(emails') = Len(emails) + 1
             /\ ~emails'[Len(emails')].ok )
           => /\ req'[r].pc = "done"
              /\ Get(req'[r].resp).code = 500
              /\ lastPinged' = lastPinged
              /\ mobileNetworkInfos' = mobileNetworkInfos
              /\ connectivityInfos' = connectivityInfos
              /\ alerts' = alerts
              /\ req[r].op = "ping"
                 => /\ req[r].mniId \in 1..Len(mobileNetworkInfos)
                    /\ req[r].ciId \in 1..Len(connectivityInfos)
                    /\ connectivityInfos[req[r].ciId].mobileNetworkInfoId
                         = req[r].mniId
                    /\ req[r].shouldUpdate
                       => lastPinged[req[r].deviceId] = Some(req[r].tnow)
        /\ ( /\ req[r].op = "confirm" /\ Finishes(r)
             /\ Get(req'[r].resp).code = 500 )
           => /\ alerts' = alerts
              /\ alerts[req[r].alertId].status = "CONFIRMED"
              /\ IsSome(alerts[req[r].alertId].resolvedAt)
              /\ Some(alerts[req[r].alertId]) = req[r].alert
    ]_vars

C10_Witness ==
  \E r \in Reqs :
    /\ req[r].op = "ping" /\ Done(r)
    /\ Answer(r).code = 500 /\ Answer(r).error = "Email delivery failed"
    /\ ~emails[Len(emails)].ok
    /\ Len(mobileNetworkInfos) = 1 /\ Len(connectivityInfos) = 1
    /\ IsSome(lastPinged[req[r].deviceId])

C12_NotLowOnlyTouchesLastPinged ==
  [][ \A r \in Reqs :
        ( /\ req[r].op = "ping" /\ Steps(r) /\ req[r].pc # "done"
          /\ ~(req[r].dbm.kind = "num" /\ req[r].dbm.val <= -100)
          /\ ~(req[r].level.kind = "num" /\ req[r].level.val <= 1) )
        => /\ mobileNetworkInfos' = mobileNetworkInfos
           /\ connectivityInfos' = connectivityInfos
           /\ alerts' = alerts
           /\ emails' = emails
           /\ locations' = locations
           /\ userAlertModeKey' = userAlertModeKey
           /\ contacts' = contacts
           /\ \A d \in Devices :
                lastPinged'[d] # lastPinged[d] => d = req[r].deviceId
           /\ req'[r].pc \in {"updateDevice", "done"}
           /\ req'[r].pc = "done"
              => /\ ~Get(req'[r].resp).warning
                 /\ Get(req'[r].resp).alert = None
                 /\ req'[r].mailed = 0
    ]_vars

C12_Witness ==
  \E r \in Reqs :
    /\ req[r].op = "ping" /\ Done(r)
    /\ req[r].dbm = Num(-99) /\ req[r].level = Num(2)
    /\ Answer(r).code = 200 /\ ~Answer(r).warning
    /\ Answer(r).lastPinged = lastPinged["d1"]
    /\ IsSome(lastPinged["d1"])
    /\ mobileNetworkInfos = << >> /\ connectivityInfos = << >>

\* C14: a ping without deviceId ends at once with the answer 400, a ping
\* naming a device that does not exist or belongs to another user ends at
\* once with the answer 404; neither changes lastPinged, creates a reading,
\* a sample or an alert, or sends an email, low signal or not.
C14_RejectedPingChangesNothing ==
  [][ \A r \in Reqs :
        ( /\ req[r].op = "ping" /\ req[r].pc = "findDevice" /\ Steps(r)
          /\ \/ req[r].deviceId = ""
             \/ req[r].deviceId \notin Devices
             \/ DeviceOwner(req[r].deviceId) # req[r].user )
        => /\ req'[r].pc = "done"
           /\ Get(req'[r].resp).code = (IF req[r].deviceId = "" THEN 400 ELSE 404)
           /\ Get(req'[r].resp).lastPinged = None
           /\ ~Get(req'[r].resp).warning
           /\ Get(req'[r].resp).alert = None
           /\ req'[r].mailed = 0
           /\ lastPinged' = lastPinged
           /\ mobileNetworkInfos' = mobileNetworkInfos
           /\ connectivityInfos' = connectivityInfos
           /\ alerts' = alerts
           /\ emails' = emails
    ]_vars

C14_Witness ==
  /\ pings = 2
  /\ \A d \in Devices : lastPinged[d] = None
  /\ mobileNetworkInfos = << >> /\ connectivityInfos = << >>
  /\ alerts = << >> /\ emails = << >>
  /\ \E r \in Reqs :
       /\ req[r].op = "ping" /\ Done(r)
       /\ req[r].deviceId = "d9" /\ req[r].dbm = Num(-100)
       /\ Answer(r).code = 404

\* C13: the persistence steps of one request come in a fixed order.  A
\* disconnect resolves its Location before it creates the reading, and
\* creates the reading before the sample; the sample carries the ids of the
\* Location and the reading of the same request, which exist by then.  A
\* low-signal ping creates the reading, then the sample (not connected,
\* type 'mobile', referring to that reading), and only then creates the
\* alert or sends the email, the alert referring to that sample (requests
\* sent one after another).
C13_PersistenceOrder ==
  [][ \A r \in Reqs :
        /\ ( req[r].op = "disconnect" /\ Steps(r) /\ req[r].pc # "done" )
           => LET q == req[r]
                  wantsLoc == q.location # None
                  wantsMni == q.mobileNetworkInfo # None
              IN /\ (locations' # locations \/ resolutions' # resolutions)
                    => /\ q.pc \in {"findNearby", "createLocation"}
                       /\ q.mniId = 0 /\ q.ciId = 0
                       /\ mobileNetworkInfos' = mobileNetworkInfos
                       /\ connectivityInfos' = connectivityInfos
                 /\ mobileNetworkInfos' # mobileNetworkInfos
                    => /\ q.pc = "createReading" /\ q.ciId = 0
                       /\ wantsLoc => q.locationId \in 1..Len(locations)
                       /\ connectivityInfos' = connectivityInfos
                       /\ req'[r].pc = "createSample"
                 /\ connectivityInfos' # connectivityInfos
                    => /\ q.pc = "createSample"
                       /\ Len(connectivityInfos') = Len(connectivityInfos) + 1
                       /\ LET log == connectivityInfos'[Len(connectivityInfos')] IN
                            /\ ~log.isConnected
                            /\ log.locationId = q.locationId
                            /\ log.mobileNetworkInfoId = q.mniId
                            /\ IF wantsLoc
                                 THEN /\ q.locationId \in 1..Len(locations)
                                      /\ \E i \in 1..Len(resolutions) :
                                           /\ resolutions[i].id = q.locationId
                                           /\ resolutions[i].latitude
                                                = Get(q.location).latitude
                                           /\ resolutions[i].longitude
                                                = Get(q.location).longitude
                                 ELSE q.locationId = 0
                            /\ IF wantsMni
                                 THEN /\ q.mniId \in 1..Len(mobileNetworkInfos)
                                      /\ mobileNetworkInfos[q.mniId]
                                           = Get(q.mobileNetworkInfo)
                                 ELSE q.mniId = 0
        /\ ( req[r].op = "ping" /\ Steps(r) /\ req[r].pc # "done" )
           => LET q == req[r] IN
                 /\ mobileNetworkInfos' # mobileNetworkInfos
                    => /\ q.pc = "createReading" /\ q.mniId = 0 /\ q.ciId = 0
                       /\ req'[r].pc = "createSample"
                       /\ req'[r].mniId = Len(mobileNetworkInfos')
                       /\ connectivityInfos' = connectivityInfos
                       /\ alerts' = alerts /\ emails' = emails
                 /\ connectivityInfos' # connectivityInfos
                    => /\ q.pc = "createSample" /\ q.ciId = 0
                       /\ Len(connectivityInfos') = Len(connectivityInfos) + 1
                       /\ LET log == connectivityInfos'[Len(connectivityInfos')] IN
                            /\ ~log.isConnected
                            /\ log.connectivityType = "mobile"
                            /\ log.deviceId = q.deviceId
                            /\ log.mobileNetworkInfoId = q.mniId
                            /\ q.mniId = Len(mobileNetworkInfos)
                       /\ req'[r].ciId = Len(connectivityInfos')
                       /\ alerts' = alerts /\ emails' = emails
                 /\ (alerts' # alerts \/ emails' # emails)
                    => /\ q.pc \in {"createAlert", "sendEmail"}
                       /\ q.ciId \in 1..Len(connectivityInfos)
                       /\ connectivityInfos[q.ciId].mobileNetworkInfoId = q.mniId
                       /\ q.mniId \in 1..Len(mobileNetworkInfos)
                       /\ alerts' # alerts
                          => alerts'[Len(alerts')].connectivityInfoId = q.ciId
    ]_vars

C13_Witness ==
  /\ Len(alerts) = 1 /\ Len(connectivityInfos) = 2 /\ Len(locations) = 1
  /\ alerts[1].connectivityInfoId = 1
  /\ connectivityInfos[1].connectivityType = "mobile"
  /\ connectivityInfos[1].mobileNetworkInfoId = 1
  /\ connectivityInfos[2].connectivityType = "none"
  /\ connectivityInfos[2].locationId = 1
  /\ connectivityInfos[2].mobileNetworkInfoId = 2
  /\ \E r \in Reqs :
       /\ req[r].op = "disconnect" /\ Done(r) /\ Answer(r).code = 201

\* two coordinate pairs lie within the matching threshold of each other
Nearby(p, q) ==
  WithinMeters(p.latitude, p.longitude, q.latitude, q.longitude, 15)

\* C15: when find-or-create is called on a coordinate pair and next on a
\* pair at most 15 m from it, both calls return the same Location.
C15_NearbyPairSameLocation ==
  \A i \in 1..(Len(resolutions) - 1) :
    Nearby(resolutions[i], resolutions[i + 1])
    => resolutions[i].id = resolutions[i + 1].id

\* C16: after find-or-create calls made one at a time from an empty store,
\* no two stored Location rows lie within 15 m of each other.
C16_NoTwoRowsWithinRadius ==
  \A i, j \in 1..Len(locations) :
    i < j => ~Nearby(locations[i], locations[j])

\* C17: a find-or-create that read no candidate creates its Location
\* without looking again, whatever was stored since its read at other
\* coordinates; two invocations in flight together for distinct pairs
\* within the radius can thus both read before either writes and both
\* create.
C17_CreateDoesNotLookAgain ==
  [][ \A r \in Reqs :
        ( /\ req[r].op = "disconnect" /\ req[r].pc = "createLocation" /\ Steps(r)
          /\ \A i \in 1..Len(locations) :
               \/ locations[i].latitude # Get(req[r].location).latitude
               \/ locations[i].longitude # Get(req[r].location).longitude )
        => /\ locations' = Append(locations, Get(req[r].location))
           /\ Len(resolutions') = Len(resolutions) + 1
           /\ resolutions'[Len(resolutions')].id = Len(locations')
           /\ \A o \in Reqs \ {r} :
                ( req[o].op = "disconnect" /\ req[o].pc = "createLocation" )
                => req'[o] = req[o]
    ]_vars

\* two rows within the radius, each inside the other's candidate box: a
\* read after the first create would have found the first row
C17_Witness ==
  \E i, j \in 1..Len(locations) :
    /\ i < j
    /\ locations[i] # locations[j]
    /\ Nearby(locations[i], locations[j])
    /\ InBox(locations[i], locations[j].latitude, locations[j].longitude)
    /\ \A r \in Reqs : req[r].op = "disconnect" /\ Done(r)
                         /\ Answer(r).code = 201

\* C18: the low-signal decision is true exactly when the dBm field is a
\* number at or below -100 or the level field is a number at or below 1; an
\* absent or non-numeric field never makes its own criterion true: dBm -100
\* is low, dBm -99 with the level above 1 or absent is not, level 1 is low
\* whatever the dBm, both absent is not low.
C18_LowSignalRule ==
  ( call.fn = "isLowSignal" /\ call.pc = "done" )
  => LET d == call.signalDbm
         l == call.signalLevel
     IN /\ call.result <=> ( (d.kind = "num" /\ d.val <= -100)
                               \/ (l.kind = "num" /\ l.val <= 1) )
        /\ d = Num(-100) => call.result
        /\ (d = Num(-99) /\ l \in {Absent, Num(2)}) => ~call.result
        /\ l = Num(1) => call.result
        /\ (d = Absent /\ l = Absent) => ~call.result
        /\ (d.kind # "num" /\ ~(l.kind = "num" /\ l.val <= 1)) => ~call.result
        /\ (l.kind # "num" /\ ~(d.kind = "num" /\ d.val <= -100)) => ~call.result

C18_Witness ==
  /\ call.fn = "isLowSignal" /\ call.pc = "done"
  /\ call.signalDbm = Num(-100) /\ call.signalLevel = Text
  /\ call.result

\* the labels from worst to best
Rank(label) ==
  IF label = "No Signal" THEN 0 ELSE IF label = "Weak" THEN 1
  ELSE IF label = "Good" THEN 2 ELSE 3

\* C19: an integer dBm of -70 or more is Excellent, of -85 to -71 Good, of
\* -100 to -86 Weak, of -101 or less No Signal; of two values the higher
\* never gets the worse label.
C19_Bands ==
  call.fn = "classifySignal"
  => /\ \A k \in 1..Len(call.results) :
          LET x == call.inputs[k] IN
            call.results[k] =
              CASE x >= -70              -> "Excellent"
                [] x >= -85 /\ x <= -71  -> "Good"
                [] x >= -100 /\ x <= -86 -> "Weak"
                [] x <= -101             -> "No Signal"
     /\ ( Len(call.results) = 2 /\ call.inputs[1] <= call.inputs[2] )
        => Rank(call.results[1]) <= Rank(call.results[2])

C19_Witness ==
  /\ call.fn = "classifySignal"
  /\ call.inputs = <<-71, -70>>
  /\ call.results = <<"Good", "Excellent">>

\* the samples linked to the resolved Location that carry a reading
AtLocation ==
  { i \in 1..Len(connectivityInfos) :
      /\ connectivityInfos[i].locationId = call.locationId
      /\ connectivityInfos[i].mobileNetworkInfoId # 0 }
ReadingOf(i) == mobileNetworkInfos[connectivityInfos[i].mobileNetworkInfoId]
\* a carrier name with the letter case taken away
CaseFolded(name) ==
  IF name \in {"Vodafone", "VODAFONE"} THEN "vodafone"
  ELSE IF name \in {"Orange", "ORANGE"} THEN "orange"
  ELSE name
RECURSIVE SumDbm(_)
SumDbm(S) ==
  IF S = {} THEN 0
  ELSE LET i == CHOOSE i \in S : TRUE
       IN Get(ReadingOf(i).signalDbm) + SumDbm(S \ {i})
RECURSIVE SumCount(_, _)
SumCount(res, n) == IF n = 0 THEN 0 ELSE res[n].count + SumCount(res, n - 1)
\* the list has one entry, in upper case, per carrier name of Q taken
\* without letter case, each counting its samples, the counts adding up
OneEntryPerCarrier(res, Q) ==
  /\ \A i \in Q : \E k \in 1..Len(res) :
       CaseFolded(res[k].carrier) = CaseFolded(Get(ReadingOf(i).carrier))
  /\ \A k, l \in 1..Len(res) :
       CaseFolded(res[k].carrier) = CaseFolded(res[l].carrier) => k = l
  /\ \A k \in 1..Len(res) :
       /\ res[k].carrier \in {"VODAFONE", "ORANGE", ""}
       /\ res[k].count =
            Cardinality({ i \in Q : CaseFolded(Get(ReadingOf(i).carrier))
                                      = CaseFolded(res[k].carrier) })
       /\ res[k].count > 0
  /\ SumCount(res, Len(res)) = Cardinality(Q)
\* the samples of Q that entry e stands for
GroupOf(e, Q) ==
  { i \in Q : CaseFolded(Get(ReadingOf(i).carrier)) = CaseFolded(e.carrier) }
\* the store holds exactly the example: Vodafone at -80, -90 and -100
ExampleStore(Q) ==
  /\ Cardinality(Q) = 3
  /\ \A i \in Q : ReadingOf(i).carrier = Some("Vodafone")
  /\ { Get(ReadingOf(i).signalDbm) : i \in Q } = {-80, -90, -100}
ExampleEntry ==
  [carrier |-> "VODAFONE", avgDbm |-> -90, quality |-> "Weak", count |-> 3]

\* C20: at a resolved Location the aggregation returns one entry per
\* upper-cased carrier name among the samples with a non-null carrier and a
\* numeric dBm; names differing in letter case only share an entry, an
\* entry's count is the number of its samples, the counts add up to the
\* number of such samples, and avgDbm is the arithmetic mean of the group's
\* dBm values (Vodafone at -80, -90, -100: VODAFONE, -90, Weak, 3).
C20_MeanPerCarrier ==
  ( call.fn = "classifySignalByCarrier" /\ call.pc = "done"
    /\ call.locationId # 0 )
  => LET Q == { i \in AtLocation : /\ ReadingOf(i).carrier # None
                                    /\ ReadingOf(i).signalDbm # None }
     IN /\ OneEntryPerCarrier(call.result, Q)
        /\ \A k \in 1..Len(call.result) :
             call.result[k].avgDbm * call.result[k].count
               = SumDbm(GroupOf(call.result[k], Q))
        /\ ExampleStore(Q) => call.result = << ExampleEntry >>

\* C20, amended: the samples that count have a carrier that is neither null
\* nor the empty string and a numeric dBm; avgDbm is the mean of the group
\* rounded to the nearest integer, a half going up, and quality is the
\* label of the mean before rounding.
C20_RoundedMeanPerCarrier ==
  ( call.fn = "classifySignalByCarrier" /\ call.pc = "done"
    /\ call.locationId # 0 )
  => LET Q == { i \in AtLocation : /\ ReadingOf(i).carrier # None
                                    /\ ReadingOf(i).carrier # Some("")
                                    /\ ReadingOf(i).signalDbm # None }
     IN /\ OneEntryPerCarrier(call.result, Q)
        /\ \A k \in 1..Len(call.result) :
             LET e == call.result[k]
                 total == SumDbm(GroupOf(e, Q))
             IN /\ 2 * total >= 2 * e.avgDbm * e.count - e.count
                /\ 2 * total <  2 * e.avgDbm * e.count + e.count
                /\ e.quality =
                     CASE total >= -70 * e.count  -> "Excellent"
                       [] total < -70 * e.count /\ total >= -85 * e.count -> "Good"
                       [] total < -85 * e.count /\ total >= -100 * e.count -> "Weak"
                       [] total < -100 * e.count -> "No Signal"
        /\ ExampleStore(Q) => call.result = << ExampleEntry >>

C20_Witness ==
  /\ call.fn = "classifySignalByCarrier" /\ call.pc = "done"
  /\ call.locationId = 1
  /\ Len(mobileNetworkInfos) = 4
  /\ mobileNetworkInfos[1] =
       [carrier |-> Some("Vodafone"), signalDbm |-> Some(-80), signalLevel |-> None]
  /\ mobileNetworkInfos[2] =
       [carrier |-> Some("VODAFONE"), signalDbm |-> Some(-91), signalLevel |-> None]
  /\ mobileNetworkInfos[3] =
       [carrier |-> Some("Orange"), signalDbm |-> Some(-100), signalLevel |-> None]
  /\ call.result =
       << [carrier |-> "VODAFONE", avgDbm |-> -85, quality |-> "Weak", count |-> 2],
          [carrier |-> "ORANGE", avgDbm |-> -100, quality |-> "Weak", count |-> 1] >>

\* C21: carrier aggregation only reads.  No step of it creates, changes or
\* deletes a Location, a sample or a reading; when no stored Location
\* matches the target point, it ends after the lookup with the empty list.
C21_AggregationOnlyReads ==
  [][ call.fn = "classifySignalByCarrier"
      => /\ locations' = locations
         /\ connectivityInfos' = connectivityInfos
         /\ mobileNetworkInfos' = mobileNetworkInfos
         /\ ( /\ call.pc = "findNearby"
              /\ \A i \in 1..Len(locations) :
                   ~WithinMeters(call.lat, call.lng, locations[i].latitude,
                                 locations[i].longitude, call.maxDistance) )
           => ( call'.pc = "done" /\ call'.result = << >> )
    ]_vars

C21_Witness ==
  /\ call.fn = "classifySignalByCarrier" /\ call.pc = "done"
  /\ call.locationId = 0 /\ call.result = << >>
  /\ call.lat = Place.latitude + 140
  /\ locations = << Place, OtherPlace >>
  /\ Len(connectivityInfos) = MaxSamples + 2

\* C22: a DELETE /api/alert-modes/:id by an administrator ends with 403 and
\* every row in place when the target is the first-created alert mode, with
\* 400 and every row in place when only one alert mode is left, and
\* otherwise removes the target and ends with 200; so no step of a delete
\* removes the first-created mode or empties the collection.
C22_DeleteGuards ==
  [][ \A r \in Reqs :
        ( /\ req[r].op = "deleteMode" /\ req[r].pc \notin {"idle", "done"}
          /\ Role(req[r].user) = "ADMIN" /\ Steps(r) )
        => LET rows == alertModes.rows
               target == req[r].modeId
           IN /\ rows # << >>
                 => /\ alertModes'.rows # << >>
                    /\ alertModes'.rows[1] = rows[1]
              /\ req'[r].pc = "done"
                 => LET code == Get(req'[r].resp).code IN
                      IF rows # << >> /\ rows[1].id = target
                        THEN code = 403 /\ alertModes' = alertModes
                      ELSE IF Len(rows) <= 1
                        THEN code = 400 /\ alertModes' = alertModes
                      ELSE IF \E i \in 1..Len(rows) : rows[i].id = target
                        THEN /\ code = 200
                             /\ alertModes'.rows
                                  = SelectSeq(rows, LAMBDA m : m.id # target)
                      ELSE alertModes' = alertModes
    ]_vars

\* C23: the matching step honours the caller's maxDistanceMeters.  Whenever
\* a stored Location lies within that distance of the target point, place
\* enrichment's 2000 m included, the lookup finds a Location, and the list
\* is not empty when samples with a carrier and a dBm value are recorded
\* at the Location found.
C23_RadiusHonoured ==
  ( call.fn = "classifySignalByCarrier" /\ call.pc = "done" )
  => \A i \in 1..Len(locations) :
       WithinMeters(call.lat, call.lng, locations[i].latitude,
                    locations[i].longitude, call.maxDistance)
       => /\ call.locationId # 0
          /\ ( \E k \in 1..Len(connectivityInfos) :
                 /\ connectivityInfos[k].locationId = call.locationId
                 /\ connectivityInfos[k].mobileNetworkInfoId # 0
                 /\ Counted(mobileNetworkInfos[
                              connectivityInfos[k].mobileNetworkInfoId]) )
             => call.result # << >>

\* C24: in every state reached through pings, confirms and dismisses, an
\* alert has resolvedAt set exactly when its status is CONFIRMED or
\* DISMISSED; a PENDING alert has none.
C24_ResolvedAtIffTerminal ==
  \A id \in 1..Len(alerts) :
    /\ alerts[id].status \in AlertStatus
    /\ IsSome(alerts[id].resolvedAt)
         <=> alerts[id].status \in {"CONFIRMED", "DISMISSED"}
    /\ alerts[id].status = "PENDING" => alerts[id].resolvedAt = None

C24_Witness ==
  /\ Len(alerts) = 1
  /\ alerts[1].status = "DISMISSED" /\ alerts[1].resolvedAt = Some(1)
  /\ \E r \in Reqs : /\ req[r].op = "confirm" /\ Done(r) /\ req[r].wrote
                      /\ req[r].alertId = 1

\* a confirm that went past its update to the notification statement
\* (await sendEmail(...), line 83) and has returned
TriedToNotify(r) == req[r].op = "confirm" /\ Done(r) /\ req[r].wrote

C26_LastPingedNeverDecreases ==
  [][ \A d \in Devices :
        IsSome(lastPinged[d])
        => /\ IsSome(lastPinged'[d])
           /\ Get(lastPinged'[d]) >= Get(lastPinged[d])
    ]_vars

\* the label the bands give an integer dBm value
LabelOf(x) ==
  IF x >= -70 THEN "Excellent" ELSE IF x >= -85 THEN "Good"
  ELSE IF x >= -100 THEN "Weak" ELSE "No Signal"
\* the samples behind entry e: those at the resolved Location whose reading
\* has a carrier of that name, letter case apart, and a dBm value
SamplesOf(e) ==
  { i \in AtLocation : /\ ReadingOf(i).carrier \notin {None, Some("")}
                        /\ ReadingOf(i).signalDbm # None
                        /\ CaseFolded(Get(ReadingOf(i).carrier))
                             = CaseFolded(e.carrier) }
\* the lower bounds of the bands
BandBounds == {-70, -85, -100}

\* C27: every entry of the list is consistent with itself: its quality is
\* the label of its own avgDbm, also for a group of integer dBm values
\* whose mean is not an integer.
C27_LabelOfReportedValue ==
  ( call.fn = "classifySignalByCarrier" /\ call.pc = "done" )
  => \A k \in 1..Len(call.result) :
       call.result[k].quality = LabelOf(call.result[k].avgDbm)

\* C27, amended: quality is the label of the group's mean before rounding.
\* It is the label of the entry's avgDbm whenever the mean is an integer,
\* and otherwise unless the mean lies below a lower band bound by at most
\* half a dBm, where avgDbm is the bound and quality the band below it.
C27_LabelOfMean ==
  ( call.fn = "classifySignalByCarrier" /\ call.pc = "done" )
  => \A k \in 1..Len(call.result) :
       LET e == call.result[k]
           total == SumDbm(SamplesOf(e))
           count == Cardinality(SamplesOf(e))
       IN /\ count > 0
          /\ e.quality =
               ( IF total >= -70 * count THEN "Excellent"
                 ELSE IF total >= -85 * count THEN "Good"
                 ELSE IF total >= -100 * count THEN "Weak" ELSE "No Signal" )
          /\ total = e.avgDbm * count => e.quality = LabelOf(e.avgDbm)
          /\ e.quality # LabelOf(e.avgDbm)
             <=> ( /\ e.avgDbm \in BandBounds
                   /\ total < e.avgDbm * count
                   /\ 2 * total >= 2 * e.avgDbm * count - count )

C27_Witness ==
  /\ call.fn = "classifySignalByCarrier" /\ call.pc = "done"
  /\ call.locationId = 1
  /\ Len(mobileNetworkInfos) = 3
  /\ mobileNetworkInfos[1] =
       [carrier |-> Some("Orange"), signalDbm |-> Some(-80), signalLevel |-> None]
  /\ mobileNetworkInfos[2] =
       [carrier |-> Some("Orange"), signalDbm |-> Some(-91), signalLevel |-> None]
  /\ call.result =
       << [carrier |-> "ORANGE", avgDbm |-> -85, quality |-> "Weak", count |-> 2] >>

\* C28: every sample created by POST /disconnect is stored with
\* isConnected false and connectivityType 'none' and with the deviceId of
\* the device the handler verified, whatever further fields the body
\* carries.
C28_DisconnectSampleIsDisconnected ==
  [][ \A r \in Reqs :
        ( /\ req[r].op = "disconnect" /\ req[r].pc \notin {"idle", "done"}
          /\ Steps(r) /\ connectivityInfos' # connectivityInfos )
        => /\ Len(connectivityInfos') = Len(connectivityInfos) + 1
           /\ LET log == connectivityInfos'[Len(connectivityInfos')] IN
                /\ log.isConnected = FALSE
                /\ log.connectivityType = "none"
                /\ log.deviceId = req[r].deviceId
                /\ log.deviceId \in Devices
                /\ DeviceOwner(log.deviceId) = req[r].user
    ]_vars

\* the body of a report fails validation
FailsValidation(q) ==
  q.connectivityType = "" \/ q.deviceId = "" \/ q.deviceId \notin Devices

\* C29: a POST /api/connectivity whose body has no connectivityType or no
\* deviceId, or names a device that does not exist, is answered 400 and no
\* step of it creates a Location, a mobileNetworkInfo row or a
\* connectivityInfo row.
C29_InvalidReportCreatesNothing ==
  [][ \A r \in Reqs :
        ( /\ req[r].op = "report" /\ req[r].pc \notin {"idle", "done"}
          /\ Steps(r) /\ FailsValidation(req[r]) )
        => /\ locations' = locations
           /\ mobileNetworkInfos' = mobileNetworkInfos
           /\ connectivityInfos' = connectivityInfos
           /\ req'[r].pc = "done"
              => req'[r].resp = Some(Response(400,
                   IF req[r].connectivityType = "" THEN "connectivityType is missing"
                   ELSE IF req[r].deviceId = "" THEN "deviceId is missing"
                   ELSE "device not found"))
    ]_vars

\* the stored rows that findNearbyLocation accepts for a point
Matching(point) ==
  { i \in 1..Len(locations) :
      /\ InBox(locations[i], point.latitude, point.longitude)
      /\ WithinMeters(point.latitude, point.longitude, locations[i].latitude,
                      locations[i].longitude, 15) }

\* C30: a find-or-create call never changes or removes a stored Location
\* and adds at most one, which carries the call's coordinates and accuracy
\* and comes from its create step, after which the call is over.  When a
\* stored Location matches the point, the store stays as it is, whatever
\* accuracy the call supplied, and the call returns the first matching row.
C30_FindOrCreateFrame ==
  [][ \A r \in Reqs :
        ( /\ req[r].op \in {"report", "disconnect"}
          /\ req[r].pc \in {"findNearby", "createLocation"} /\ Steps(r) )
        => LET point == Get(req[r].location)
               n == Len(locations)
           IN /\ Len(locations') \in {n, n + 1}
              /\ SubSeq(locations', 1, n) = locations
              /\ req'[r].pc \notin {"findNearby", "createLocation"}
                 <=> ( Len(resolutions') = Len(resolutions) + 1
                       \/ req'[r].pc = "done" )
              /\ req[r].pc = "findNearby" => locations' = locations
              /\ Len(locations') = n + 1
                 => /\ req[r].pc = "createLocation"
                    /\ locations'[n + 1] =
                         [ latitude |-> point.latitude,
                           longitude |-> point.longitude,
                           accuracy |-> point.accuracy ]
                    /\ req'[r].locationId = n + 1
                    /\ req'[r].pc \in {"createReading", "createSample"}
              /\ ( req[r].pc = "findNearby" /\ Matching(point) # {} )
                 => /\ locations' = locations
                    /\ req'[r].locationId \in Matching(point)
                    /\ \A i \in Matching(point) : req'[r].locationId <= i
                    /\ resolutions' =
                         Append(resolutions,
                                [ latitude |-> point.latitude,
                                  longitude |-> point.longitude,
                                  id |-> req'[r].locationId ])
                    /\ req'[r].pc \in {"createReading", "createSample"}
    ]_vars

\* a report with accuracy 50 was resolved to the row stored with accuracy 5,
\* and a later one far from it got a row of its own
C30_Witness ==
  /\ Len(locations) = 2
  /\ locations[1] = [latitude |-> 60000000, longitude |-> 25000000,
                      accuracy |-> Some(5)]
  /\ locations[2] = [latitude |-> 60000000, longitude |-> 25001000,
                      accuracy |-> None]
  /\ Len(resolutions) = 3
  /\ resolutions[1].id = 1 /\ resolutions[2].id = 1 /\ resolutions[3].id = 2
  /\ resolutions[2].longitude = 25000100
  /\ Len(connectivityInfos) = 3
  /\ connectivityInfos[2].locationId = 1

====
